---- MODULE Spec2Model ----
(***************************************************************************)
(* Incremental indexing pipeline of the codebase indexer: file scan and   *)
(* hash, Merkle summary build / diff / persistence, chunking, embedding   *)
(* cache, embedding provider and vector store, as orchestrated by         *)
(* Indexer.index() in src/src/indexer.ts.                                  *)
(*                                                                         *)
(* Paths are sequences of path segments (<<"d","b">> is "d/b"); the root   *)
(* directory "." is <<".">>.  A file content is a sequence of chunk texts  *)
(* (naturals); text 0 is a text on which chunkFile throws.  SHA-256 is     *)
(* modelled as a collision-free encoding of sequences into naturals.       *)
(*                                                                         *)
(* Further specifications check parts of the program on their own: the     *)
(* Merkle build and diff (SpecMerkle), the calls around index()            *)
(* (SpecOps), the chunker (SpecChunk), the OpenAI batcher (SpecBatch),     *)
(* the retriever (SpecEnrich), the benchmark dataset loader (SpecLoad),    *)
(* the record id (SpecUuid) and the embedder's initialisation              *)
(* (SpecEmbedder).                                                         *)
(***************************************************************************)
EXTENDS Naturals, Integers, Sequences, FiniteSets, TLC

\* ---------------------------------------------------------------- bounds
\* Number of distinct parsable chunk texts.
MaxChunk == 2
\* Points per vector-store upsert request (the source batches by 100; the
\* model scales the batch down so that a run issues several requests).
UpsertBatch == 1
\* Number of index() calls in one behaviour.
MaxRuns == 2
\* Number of file changes between two index() calls.
MaxEdits == 1
\* Number of changes made to a file tree whose Merkle summary is diffed.
MaxMerkleEdits == 2
\* Token ceiling and floor of a chunk (the source defaults are 512 and 30;
\* the model scales them down together with the length of a line).
maxChunkTokens == 4
minChunkTokens == 2
\* Lines of a file given to the chunker, and lines of one top-level node.
MaxLines == 4
MaxSpan == 3
\* Top-level nodes of a file given to the chunker.
MaxNodes == 2
\* Children recorded for a container, logical blocks recorded for a function.
MaxKids == 2
MaxBlocks == 2
\* Token budget and input limit of one embedding request (6000 and 2048 in
\* the source, scaled down with the length of a text), and texts in a call.
MAX_TOKENS_PER_REQUEST == 4
MAX_INPUTS_PER_REQUEST == 3
MaxTexts == 5
\* Hits of one search, lines of a file read back for a hit, and the largest
\* line number a stored payload carries.
MaxHits == 2
MaxFileLines == 2
MaxPayloadLine == 3
\* Corpus entries, queries and relevance judgments of a benchmark dataset.
MaxDocs == 3
MaxQueryRows == 2
MaxQrels == 2
\* Hex digits of a content hash changed from a base pattern.
MaxDigitEdits == 1
\* Concurrent callers of one Embedder, and calls each of them makes.
NumCallers == 2
MaxCallsEach == 2
\* Number of file changes or other calls between two index() calls in a
\* behaviour that also calls init, search, reset, prune and clear.
MaxCalls == 2
\* Largest k of search(query, k) and largest maxAgeMs of prune(maxAgeMs).
MaxTopK == 2
MaxAge == 4

\* ---------------------------------------------------------------- universe
RootPath == <<".">>
Paths == {<<"a">>, <<"d", "b">>}
Alphabet == <<".", "a", "b", "d">>
Absent == <<0 - 1>>
BadText == 0
Texts == 1..MaxChunk

RECURSIVE Ascending(_)
\* The elements of a set of naturals as an ascending sequence.
Ascending(S) ==
  IF S = {} THEN <<>>
  ELSE LET m == CHOOSE x \in S : \A y \in S : x <= y
       IN <<m>> \o Ascending(S \ {m})

\* Possible contents of a present file: some parsable chunk texts, one chunk
\* each, or the content on which the parser throws.
Contents == {Ascending(S) : S \in (SUBSET Texts) \ {{}}} \cup {<<BadText>>}

Range(s) == {s[i] : i \in 1..Len(s)}

\* ---------------------------------------------------------------- hashing
Pair(x, y) == ((x + y) * (x + y + 1)) \div 2 + y

\* Digests are the naturals below HashSpace squared; below HashSpace the
\* encoding of a sequence is collision-free (every content and chunk hash of
\* the model is), above it the hashes of directories deep in a tree are folded.
HashSpace == 20000

RECURSIVE Sha256(_)
Sha256(s) ==
  IF s = <<>> THEN 0
  ELSE Pair(Sha256(SubSeq(s, 1, Len(s) - 1)) % HashSpace, s[Len(s)] % HashSpace) + 1

\* Array.prototype.sort, stable and ascending; keys[i] is the sort key of s[i].
StableSort(s, keys) ==
  LET n == Len(s)
      pos(i) == 1 + Cardinality({j \in 1..n :
                     \/ keys[j] < keys[i]
                     \/ (keys[j] = keys[i] /\ j < i)})
  IN [k \in 1..n |-> s[CHOOSE i \in 1..n : pos(i) = k]]

CharRank(c) == CHOOSE i \in 1..Len(Alphabet) : Alphabet[i] = c

RECURSIVE PathKey(_)
\* Rank of a path in the order of its "/"-joined string.
PathKey(p) ==
  IF p = <<>> THEN 0
  ELSE CharRank(p[1]) * (10 * 10) + PathKey(Tail(p)) \div 10

\* Sort keys of a sequence of paths: default string order, and depth descending.
PathKeys(ps) == [i \in 1..Len(ps) |-> PathKey(ps[i])]
NegDepths(ps) == [i \in 1..Len(ps) |-> 0 - Len(ps[i])]

\* ---------------------------------------------------------------- Merkle
tsParentPath(p) ==
  IF Len(p) > 1 THEN SubSeq(p, 1, Len(p) - 1) ELSE RootPath

\* Insertion-ordered Map: a sequence of [key, val] with distinct keys.
MapHas(m, k) == \E i \in 1..Len(m) : m[i].key = k
MapGet(m, k) == m[CHOOSE i \in 1..Len(m) : m[i].key = k].val
MapSet(m, k, v) ==
  IF MapHas(m, k)
  THEN [i \in 1..Len(m) |-> IF m[i].key = k THEN [key |-> k, val |-> v] ELSE m[i]]
  ELSE Append(m, [key |-> k, val |-> v])
MapKeys(m) == [i \in 1..Len(m) |-> m[i].key]
MapValues(m) == [i \in 1..Len(m) |-> m[i].val]

\* Set.add on an insertion-ordered Set.
SetAdd(s, x) == IF \E i \in 1..Len(s) : s[i] = x THEN s ELSE Append(s, x)

RECURSIVE RegisterParents(_, _)
\* The while(true) loop of tsBuildMerkleTree for one file.
RegisterParents(dirChildren, current) ==
  LET parent == tsParentPath(current)
      dc1 == IF MapHas(dirChildren, parent) THEN dirChildren
             ELSE MapSet(dirChildren, parent, <<>>)
      dc2 == MapSet(dc1, parent, SetAdd(MapGet(dc1, parent), current))
  IN IF parent = current \/ parent = RootPath THEN dc2
     ELSE RegisterParents(dc2, parent)

RECURSIVE InsertLeaves(_, _, _)
InsertLeaves(fileHashes, nodes, dirChildren) ==
  IF fileHashes = <<>> THEN [nodes |-> nodes, dirChildren |-> dirChildren]
  ELSE LET fh == Head(fileHashes)
       IN InsertLeaves(Tail(fileHashes),
            MapSet(nodes, fh.path,
                   [path |-> fh.path, hash |-> fh.hash, isFile |-> TRUE, children |-> <<>>]),
            RegisterParents(dirChildren, fh.path))

\* Hashes of the children that already have a node (a missing node
\* contributes the empty string to the concatenation).
ChildHashes(nodes, children) ==
  LET present == SelectSeq(children, LAMBDA c : MapHas(nodes, c))
  IN [i \in 1..Len(present) |-> MapGet(nodes, present[i]).hash]

RECURSIVE BuildDirs(_, _, _)
BuildDirs(dirPaths, nodes, dirChildren) ==
  IF dirPaths = <<>> THEN nodes
  ELSE LET dirPath == Head(dirPaths)
           children == StableSort(MapGet(dirChildren, dirPath),
                                  PathKeys(MapGet(dirChildren, dirPath)))
           childHashes == StableSort(ChildHashes(nodes, children),
                                     ChildHashes(nodes, children))
       IN BuildDirs(Tail(dirPaths),
            MapSet(nodes, dirPath,
                   [path |-> dirPath, hash |-> Sha256(childHashes),
                    isFile |-> FALSE, children |-> children]),
            dirChildren)

RECURSIVE MissingAtBuild(_, _, _)
\* The lookups nodes.get(c) of the directory loop that find no node: the
\* pairs of a directory and a child that had no hash when the directory was hashed.
MissingAtBuild(dirPaths, nodes, dirChildren) ==
  IF dirPaths = <<>> THEN {}
  ELSE LET dirPath == Head(dirPaths)
           missing == {c \in Range(MapGet(dirChildren, dirPath)) : ~MapHas(nodes, c)}
       IN {[dir |-> dirPath, child |-> c] : c \in missing} \cup
          MissingAtBuild(Tail(dirPaths), BuildDirs(<<dirPath>>, nodes, dirChildren), dirChildren)

\* The order in which tsBuildMerkleTree hashes the directories.
DirOrder(fileHashes) ==
  LET leaves == InsertLeaves(fileHashes, <<>>, <<>>)
  IN StableSort(MapKeys(leaves.dirChildren), NegDepths(MapKeys(leaves.dirChildren)))

tsBuildMerkleTree(fileHashes) ==
  LET leaves == InsertLeaves(fileHashes, <<>>, <<>>)
      dirPaths == StableSort(MapKeys(leaves.dirChildren),
                             NegDepths(MapKeys(leaves.dirChildren)))
  IN MapValues(BuildDirs(dirPaths, leaves.nodes, leaves.dirChildren))

\* Mutant: the filter on isFile is lost, directory nodes are diffed too.
FilePathsOf_AllNodes(nodes) == [i \in 1..Len(nodes) |-> nodes[i].path]

\* Paths of the file nodes of a node list, in list order (Map key order).
FilePathsOf(nodes) ==
  LET files == SelectSeq(nodes, LAMBDA n : n.isFile)
  IN [i \in 1..Len(files) |-> files[i].path]

FileHashIn(nodes, p) ==
  (CHOOSE n \in {nodes[i] : i \in 1..Len(nodes)} : n.isFile /\ n.path = p).hash

HasFile(nodes, p) == \E i \in 1..Len(nodes) : nodes[i].isFile /\ nodes[i].path = p

\* Mutant: the hash comparison of the diff is lost (every common path is modified).
tsDiffMerkleTrees_NoHashCompare(oldNodes, newNodes) ==
  LET newFiles == FilePathsOf(newNodes)
      oldFiles == FilePathsOf(oldNodes)
  IN [added |-> SelectSeq(newFiles, LAMBDA p : ~HasFile(oldNodes, p)),
      modified |-> SelectSeq(newFiles, LAMBDA p : HasFile(oldNodes, p)),
      removed |-> SelectSeq(oldFiles, LAMBDA p : ~HasFile(newNodes, p))]

tsDiffMerkleTrees(oldNodes, newNodes) ==
  LET newFiles == FilePathsOf(newNodes)
      oldFiles == FilePathsOf(oldNodes)
  IN [added |-> SelectSeq(newFiles, LAMBDA p : ~HasFile(oldNodes, p)),
      modified |-> SelectSeq(newFiles, LAMBDA p :
                     HasFile(oldNodes, p) /\ FileHashIn(oldNodes, p) # FileHashIn(newNodes, p)),
      removed |-> SelectSeq(oldFiles, LAMBDA p : ~HasFile(newNodes, p))]

\* ---------------------------------------------------------------- state
VARIABLES
  fs,          \* path -> content of the file, or Absent
  unreadable,  \* paths whose read fails (fs.readFileSync throws)
  merkleFile,  \* <root>/.cache/merkle-state.json
  store,       \* records of the vector-store collection
  cacheMem,    \* EmbeddingCache.store of the live Indexer
  dirty,       \* EmbeddingCache.dirty
  cacheFile,   \* the embedding cache file
  pc,          \* position of index(): idle, cleanup, chunk, embed, upsert, persist
  run,         \* local variables of the index() call in progress
  out,         \* what the current / last index() call did and returned
  prev,        \* what the index() call before it did
  nRuns,       \* index() calls so far
  nEdits,      \* file changes since the last index() call began
  collection,  \* does the vector-store collection exist?
  lastCall,    \* the last init(), search(), reset(), prune() or clear() call
  fn           \* arguments and result of a function applied on its own

vars == <<fs, unreadable, merkleFile, store, cacheMem, dirty, cacheFile,
          pc, run, out, prev, nRuns, nEdits, collection, lastCall, fn>>

\* Everything but fn: the state of the indexing pipeline.
pipeline == <<fs, unreadable, merkleFile, store, cacheMem, dirty, cacheFile,
              pc, run, out, prev, nRuns, nEdits, collection, lastCall>>

RECURSIVE Flatten(_)
Flatten(ss) == IF ss = <<>> THEN <<>> ELSE Head(ss) \o Flatten(Tail(ss))

NoDiff == [added |-> <<>>, modified |-> <<>>, removed |-> <<>>]
NoStats == [totalFiles |-> 0, totalChunks |-> 0, newChunks |-> 0, cachedChunks |-> 0]

EmptyRun ==
  [filePaths |-> <<>>, newMerkleNodes |-> <<>>, oldLength |-> 0, diff |-> NoDiff,
   allChunks |-> <<>>, cachedResults |-> <<>>, uncachedChunks |-> <<>>,
   newEmbeddings |-> <<>>, points |-> <<>>, i |-> 0, base |-> {}]

NoOut ==
  [status |-> "none", stage |-> "none", stats |-> NoStats, untouched |-> FALSE,
   merkleBefore |-> [kind |-> "missing", nodes |-> <<>>],
   scanned |-> {}, hashed |-> {}, oldLength |-> 0, diff |-> NoDiff,
   didChunk |-> FALSE, selected |-> {}, chunked |-> {}, reported |-> {},
   totalPoints |-> 0, embedded |-> <<>>, deletes |-> 0, upserts |-> 0, upserted |-> {}]

\* No call other than index() was made yet.
NoCall == [op |-> "none", ok |-> TRUE, had |-> TRUE, hits |-> 0, at |-> 0]

\* No function is being applied on its own.
NoFn == [op |-> "none"]

\* What is remembered of the index() call before the current one.
Summary(o) == [status |-> o.status, stage |-> o.stage, diff |-> o.diff, selected |-> o.selected]

Init ==
  /\ fs \in [Paths -> Contents \cup {Absent}]
  /\ unreadable \in SUBSET {p \in Paths : fs[p] # Absent}
  /\ merkleFile = [kind |-> "missing", nodes |-> <<>>]
  /\ store = {}
  /\ cacheMem = {}
  /\ dirty = FALSE
  /\ cacheFile = [exists |-> FALSE, entries |-> {}]
  /\ pc = "idle"
  /\ run = EmptyRun
  /\ out = NoOut
  /\ prev = Summary(NoOut)
  /\ nRuns = 0
  /\ nEdits = 0
  /\ collection = TRUE
  /\ lastCall = NoCall
  /\ fn = NoFn

\* ---------------------------------------------------------------- helpers
\* tsScanDirectory: the present files, sorted.
scanFiles ==
  LET present == {p \in Paths : fs[p] # Absent}
      RECURSIVE AsSeq(_)
      AsSeq(S) == IF S = {} THEN <<>>
                  ELSE LET x == CHOOSE y \in S : TRUE IN <<x>> \o AsSeq(S \ {x})
  IN StableSort(AsSeq(present), PathKeys(AsSeq(present)))

CanRead(p) == fs[p] # Absent /\ p \notin unreadable

\* tsSha256HashFiles + Indexer.hashFiles: a file whose read throws is dropped.
tsSha256HashFiles(filePaths) ==
  LET ok == SelectSeq(filePaths, CanRead)
  IN [k \in 1..Len(ok) |-> [path |-> ok[k], hash |-> Sha256(fs[ok[k]])]]

\* Indexer.loadMerkleState: what JSON.parse hands back, [] on a missing or
\* unparseable file.  "object" is a file that parses to a non-array value.
loadMerkleState ==
  IF merkleFile.kind = "nodes" THEN [isArray |-> TRUE, nodes |-> merkleFile.nodes]
  ELSE IF merkleFile.kind = "object" THEN [isArray |-> FALSE, nodes |-> <<>>]
  ELSE [isArray |-> TRUE, nodes |-> <<>>]

\* ASTChunker.chunkFile on a readable file.
ChunkThrows(content) == BadText \in Range(content)
chunkFile(relPath, content) ==
  [k \in 1..Len(content) |->
     [chunkId |-> Sha256(<<content[k]>>), filePath |-> relPath,
      startLine |-> k, endLine |-> k, content |-> content[k],
      contentHash |-> Sha256(<<content[k]>>)]]

\* The files of filesToProcess on which the try block of step 6 throws.
ChunkFails(fp) == ~CanRead(fp) \/ ChunkThrows(fs[fp])

\* The embedding provider, deterministic: the vector of a text.
Embedding(text) == [of |-> text]

\* Mutant: the cache hands back a vector that is not the one stored.
CacheGet_Foreign(cache, h) == [of |-> BadText]

\* EmbeddingCache.get: does the cache hold the hash?
CacheHas(cache, h) == \E e \in cache : e.key = h
CacheGet(cache, h) == (CHOOSE e \in cache : e.key = h).vector
CacheSet(cache, h, v, now) ==
  {e \in cache : e.key # h} \cup {[key |-> h, vector |-> v, timestamp |-> now]}

RECURSIVE CacheSetAll(_, _, _, _)
\* The loop of cache.set calls of step 8; Date.now() advances by one unit
\* from one call to the next.
CacheSetAll(cache, chunks, vectors, now) ==
  IF chunks = <<>> THEN cache
  ELSE CacheSetAll(CacheSet(cache, Head(chunks).contentHash, Head(vectors), now),
                   Tail(chunks), Tail(vectors), now + 1)

\* Date.now(): the clock is at Ticks * n when the n-th index() call begins
\* and has passed every cache.set of that call once the call has ended
\* (a run sets at most one entry per chunk of every file).
Ticks == Cardinality(Paths) * MaxChunk + 1
Now == Ticks * nRuns + (IF pc = "idle" THEN Ticks - 1 ELSE 0)

Point(chunk, vector) ==
  [id |-> chunk.chunkId, vector |-> vector,
   payload |-> [filePath |-> chunk.filePath, startLine |-> chunk.startLine,
                endLine |-> chunk.endLine, contentHash |-> chunk.contentHash]]

\* Mutant: the filter names a payload key no record has, so nothing matches.
deleteByFilePaths_WrongKey(records, filePaths) == records

\* VectorStore.deleteByFilePaths: the filter-delete on payload.filePath.
deleteByFilePaths(records, filePaths) ==
  {r \in records : r.payload.filePath \notin Range(filePaths)}

RECURSIVE upsertBatch(_, _)
\* One client.upsert request: a point replaces the record of the same id.
upsertBatch(records, batch) ==
  IF batch = <<>> THEN records
  ELSE upsertBatch({r \in records : r.id # Head(batch).id} \cup {Head(batch)}, Tail(batch))

\* ---------------------------------------------------------------- index()
\* How index() ends: it returns stats, or raises at a stage.
Return(stats, o) == [o EXCEPT !.status = "returned", !.stage = "done", !.stats = stats]
Raise(stage, o) == [o EXCEPT !.status = "raised", !.stage = stage]

\* if (changedFiles.length === 0 && removedFiles.length === 0 && oldMerkleNodes.length > 0)
NothingToDo(diff, oldLength) ==
  diff.added \o diff.modified = <<>> /\ diff.removed = <<>> /\ oldLength > 0

\* if (removedFiles.length > 0 || diff.modified.length > 0)
NeedsCleanup(diff) == Len(diff.removed) > 0 \/ Len(diff.modified) > 0

\* Mutant: every scanned file is processed on every run.
filesToProcess_All(oldLength, filePaths, diff) == filePaths

\* const filesToProcess = oldMerkleNodes.length === 0 ? filePaths : changedFiles
filesToProcess(oldLength, filePaths, diff) ==
  IF oldLength = 0 THEN filePaths ELSE diff.added \o diff.modified

\* Steps 1-4 and the early return: scan, hash, build, load, diff.
IndexStart ==
  /\ pc = "idle"
  /\ nRuns < MaxRuns
  /\ nRuns' = nRuns + 1
  /\ nEdits' = 0
  /\ LET filePaths == scanFiles
         fileHashes == tsSha256HashFiles(filePaths)
         newMerkleNodes == tsBuildMerkleTree(fileHashes)
         loaded == loadMerkleState
         o == [NoOut EXCEPT !.status = "running", !.untouched = (nEdits = 0),
                            !.merkleBefore = merkleFile,
                            !.scanned = Range(filePaths),
                            !.hashed = {fileHashes[k].path : k \in 1..Len(fileHashes)}]
     IN /\ prev' = Summary(out)
        /\ IF ~loaded.isArray
           THEN \* oldNodes.filter is not a function: tsDiffMerkleTrees throws
                /\ out' = Raise("diff", o)
                /\ UNCHANGED <<pc, run>>
           ELSE LET oldMerkleNodes == loaded.nodes
                    diff == tsDiffMerkleTrees(oldMerkleNodes, newMerkleNodes)
                    oldLength == Len(oldMerkleNodes)
                    o2 == [o EXCEPT !.diff = diff, !.oldLength = oldLength]
                IN IF NothingToDo(diff, oldLength)
                   THEN /\ out' = Return([NoStats EXCEPT !.totalFiles = Len(filePaths)], o2)
                        /\ UNCHANGED <<pc, run>>
                   ELSE /\ out' = o2
                        /\ run' = [EmptyRun EXCEPT !.filePaths = filePaths,
                                                   !.newMerkleNodes = newMerkleNodes,
                                                   !.oldLength = oldLength,
                                                   !.diff = diff]
                        /\ pc' = IF NeedsCleanup(diff) THEN "cleanup" ELSE "chunk"
  /\ UNCHANGED <<fs, unreadable, merkleFile, store, cacheMem, dirty, cacheFile, collection, lastCall, fn>>

\* Step 5: await vectorStore.deleteByFilePaths([...removedFiles, ...diff.modified])
CleanupOk ==
  /\ pc = "cleanup"
  /\ collection
  /\ store' = deleteByFilePaths(store, run.diff.removed \o run.diff.modified)
  /\ out' = [out EXCEPT !.deletes = @ + 1]
  /\ pc' = "chunk"
  /\ UNCHANGED <<fs, unreadable, merkleFile, cacheMem, dirty, cacheFile, run, prev, nRuns, nEdits, collection, lastCall, fn>>

CleanupFail ==
  /\ pc = "cleanup"
  /\ out' = Raise("cleanup", out)
  /\ pc' = "idle"
  /\ run' = EmptyRun
  /\ UNCHANGED <<fs, unreadable, merkleFile, store, cacheMem, dirty, cacheFile, prev, nRuns, nEdits, collection, lastCall, fn>>

\* Mutant: the catch block of step 6 rethrows.
ChunkOutcome_Rethrow(failed) == IF failed # {} THEN "raise" ELSE "continue"

\* The try / catch around one file of step 6: a failure is reported and the
\* loop goes on.
ChunkOutcome(failed) == "continue"

\* Steps 6-7: chunk the selected files, then split the chunks by cache hit.
ChunkStep ==
  /\ pc = "chunk"
  /\ LET files == filesToProcess(run.oldLength, run.filePaths, run.diff)
         failed == {fp \in Range(files) : ChunkFails(fp)}
         perFile == [k \in 1..Len(files) |->
                       IF files[k] \in failed THEN <<>>
                       ELSE chunkFile(files[k], fs[files[k]])]
         allChunks == Flatten(perFile)
         cachedChunks == SelectSeq(allChunks, LAMBDA c : CacheHas(cacheMem, c.contentHash))
         uncachedChunks == SelectSeq(allChunks, LAMBDA c : ~CacheHas(cacheMem, c.contentHash))
         cachedResults == [k \in 1..Len(cachedChunks) |->
                             [chunk |-> cachedChunks[k],
                              vector |-> CacheGet(cacheMem, cachedChunks[k].contentHash)]]
         points == [k \in 1..Len(cachedResults) |->
                      Point(cachedResults[k].chunk, cachedResults[k].vector)]
     IN IF ChunkOutcome(failed) = "raise"
        THEN /\ out' = Raise("chunk", out)
             /\ pc' = "idle"
             /\ run' = EmptyRun
        ELSE /\ run' = [run EXCEPT !.allChunks = allChunks, !.cachedResults = cachedResults,
                                   !.uncachedChunks = uncachedChunks, !.points = points,
                                   !.base = store]
             /\ out' = [out EXCEPT !.didChunk = TRUE,
                                   !.totalPoints = Len(allChunks),
                                   !.selected = Range(files),
                                   !.chunked = Range(files) \ failed,
                                   !.reported = failed]
             /\ pc' = IF Len(uncachedChunks) > 0 THEN "embed"
                      ELSE IF Len(points) > 0 THEN "upsert" ELSE "persist"
  /\ UNCHANGED <<fs, unreadable, merkleFile, store, cacheMem, dirty, cacheFile, prev, nRuns, nEdits, collection, lastCall, fn>>

\* Step 8: embedBatch returns one vector per text; each is put in the cache.
EmbedOk ==
  /\ pc = "embed"
  /\ LET texts == [k \in 1..Len(run.uncachedChunks) |-> run.uncachedChunks[k].content]
         newEmbeddings == [k \in 1..Len(texts) |-> Embedding(texts[k])]
         points == run.points \o
                   [k \in 1..Len(texts) |-> Point(run.uncachedChunks[k], newEmbeddings[k])]
     IN /\ cacheMem' = CacheSetAll(cacheMem, run.uncachedChunks, newEmbeddings, Now)
        /\ dirty' = TRUE
        /\ run' = [run EXCEPT !.newEmbeddings = newEmbeddings, !.points = points]
        /\ out' = [out EXCEPT !.embedded =
                     [k \in 1..Len(texts) |->
                        [filePath |-> run.uncachedChunks[k].filePath, text |-> texts[k]]]]
        /\ pc' = "upsert"
  /\ UNCHANGED <<fs, unreadable, merkleFile, store, cacheFile, prev, nRuns, nEdits, collection, lastCall, fn>>

\* Mutant: the Merkle state is saved on the way out of a failed embedding.
EmbedFail_SavesMerkle ==
  /\ pc = "embed"
  /\ out' = Raise("embed", out)
  /\ pc' = "idle"
  /\ run' = EmptyRun
  /\ merkleFile' = [kind |-> "nodes", nodes |-> run.newMerkleNodes]
  /\ UNCHANGED <<fs, unreadable, store, cacheMem, dirty, cacheFile, prev, nRuns, nEdits, collection, lastCall, fn>>

\* Step 8, the provider throws: index() raises before cache.set and upsert.
EmbedFail ==
  /\ pc = "embed"
  /\ out' = Raise("embed", out)
  /\ pc' = "idle"
  /\ run' = EmptyRun
  /\ UNCHANGED <<fs, unreadable, merkleFile, store, cacheMem, dirty, cacheFile, prev, nRuns, nEdits, collection, lastCall, fn>>

\* Step 9: one client.upsert request of VectorStore.upsert, points i .. i+batch-1.
UpsertBatchOk ==
  /\ pc = "upsert"
  /\ collection
  /\ run.i < Len(run.points)
  /\ LET last == IF run.i + UpsertBatch < Len(run.points)
                 THEN run.i + UpsertBatch ELSE Len(run.points)
         batch == SubSeq(run.points, run.i + 1, last)
     IN /\ store' = upsertBatch(store, batch)
        /\ run' = [run EXCEPT !.i = run.i + UpsertBatch]
        /\ out' = [out EXCEPT !.upserts = @ + 1,
                              !.upserted = @ \cup {batch[k].id : k \in 1..Len(batch)}]
        /\ pc' = IF run.i + UpsertBatch < Len(run.points) THEN "upsert" ELSE "persist"
  /\ UNCHANGED <<fs, unreadable, merkleFile, cacheMem, dirty, cacheFile, prev, nRuns, nEdits, collection, lastCall, fn>>

\* Mutant: the Merkle state is saved on the way out of a failed upsert.
UpsertFail_SavesMerkle ==
  /\ pc = "upsert"
  /\ run.i < Len(run.points)
  /\ out' = Raise("upsert", out)
  /\ pc' = "idle"
  /\ run' = EmptyRun
  /\ merkleFile' = [kind |-> "nodes", nodes |-> run.newMerkleNodes]
  /\ UNCHANGED <<fs, unreadable, store, cacheMem, dirty, cacheFile, prev, nRuns, nEdits, collection, lastCall, fn>>

\* Step 9, a client.upsert request throws: index() raises.
UpsertFail ==
  /\ pc = "upsert"
  /\ run.i < Len(run.points)
  /\ out' = Raise("upsert", out)
  /\ pc' = "idle"
  /\ run' = EmptyRun
  /\ UNCHANGED <<fs, unreadable, merkleFile, store, cacheMem, dirty, cacheFile, prev, nRuns, nEdits, collection, lastCall, fn>>

\* Mutant: an empty node list is written.
saveMerkleState_Nothing(nodes) == [kind |-> "nodes", nodes |-> <<>>]

\* Indexer.saveMerkleState: JSON.stringify of the node list (plain data, so
\* JSON.parse in loadMerkleState gives the same list back).
saveMerkleState(nodes) == [kind |-> "nodes", nodes |-> nodes]

\* EmbeddingCache.save writes unless nothing changed and the file exists.
CacheSaveWrites == dirty \/ ~cacheFile.exists

RunStats ==
  [totalFiles |-> Len(run.filePaths), totalChunks |-> Len(run.allChunks),
   newChunks |-> Len(run.uncachedChunks), cachedChunks |-> Len(run.cachedResults)]

\* Step 10 and the return: saveMerkleState, cache.save(), stats.
PersistOk ==
  /\ pc = "persist"
  /\ merkleFile' = saveMerkleState(run.newMerkleNodes)
  /\ IF CacheSaveWrites
     THEN cacheFile' = [exists |-> TRUE, entries |-> cacheMem] /\ dirty' = FALSE
     ELSE UNCHANGED <<cacheFile, dirty>>
  /\ out' = Return(RunStats, out)
  /\ pc' = "idle"
  /\ run' = EmptyRun
  /\ UNCHANGED <<fs, unreadable, store, cacheMem, prev, nRuns, nEdits, collection, lastCall, fn>>

\* Step 10, fs.writeFileSync of the Merkle state throws.
SaveMerkleFail ==
  /\ pc = "persist"
  /\ out' = Raise("saveMerkle", out)
  /\ pc' = "idle"
  /\ run' = EmptyRun
  /\ UNCHANGED <<fs, unreadable, merkleFile, store, cacheMem, dirty, cacheFile, prev, nRuns, nEdits, collection, lastCall, fn>>

\* Step 10, the write of cache.save() throws after the Merkle state was written.
CacheSaveFail ==
  /\ pc = "persist"
  /\ CacheSaveWrites
  /\ merkleFile' = saveMerkleState(run.newMerkleNodes)
  /\ out' = Raise("cacheSave", out)
  /\ pc' = "idle"
  /\ run' = EmptyRun
  /\ UNCHANGED <<fs, unreadable, store, cacheMem, dirty, cacheFile, prev, nRuns, nEdits, collection, lastCall, fn>>

\* EmbeddingCache.load in the constructor of a new Indexer.
CacheLoad == cacheFile.entries

\* The process dies inside index(); the next Indexer loads the cache file.
Crash ==
  /\ pc # "idle"
  /\ out' = [out EXCEPT !.status = "crashed", !.stage = pc]
  /\ pc' = "idle"
  /\ run' = EmptyRun
  /\ cacheMem' = CacheLoad
  /\ dirty' = FALSE
  /\ UNCHANGED <<fs, unreadable, merkleFile, store, cacheFile, prev, nRuns, nEdits, collection, lastCall, fn>>

\* A new process (a new CLI command) between two index() calls.
Restart ==
  /\ pc = "idle"
  /\ cacheMem # CacheLoad \/ dirty
  /\ cacheMem' = CacheLoad
  /\ dirty' = FALSE
  /\ UNCHANGED <<fs, unreadable, merkleFile, store, cacheFile, pc, run, out, prev, nRuns, nEdits, collection, lastCall, fn>>

\* ---------------------------------------------------------------- environment
\* A file is created or its content edited between two runs.
WriteFileWithin(maxEdits) ==
  /\ pc = "idle"
  /\ nRuns > 0 /\ nRuns < MaxRuns
  /\ nEdits < maxEdits
  /\ nEdits' = nEdits + 1
  /\ \E p \in Paths, c \in Contents :
       /\ fs[p] # c
       /\ fs' = [fs EXCEPT ![p] = c]
  /\ UNCHANGED <<unreadable, merkleFile, store, cacheMem, dirty, cacheFile, pc, run, out, prev, nRuns, collection, lastCall, fn>>

WriteFile == WriteFileWithin(MaxEdits)

RemoveFileWithin(maxEdits) ==
  /\ pc = "idle"
  /\ nRuns > 0 /\ nRuns < MaxRuns
  /\ nEdits < maxEdits
  /\ nEdits' = nEdits + 1
  /\ \E p \in Paths :
       /\ fs[p] # Absent
       /\ fs' = [fs EXCEPT ![p] = Absent]
       /\ unreadable' = unreadable \ {p}
  /\ UNCHANGED <<merkleFile, store, cacheMem, dirty, cacheFile, pc, run, out, prev, nRuns, collection, lastCall, fn>>

RemoveFile == RemoveFileWithin(MaxEdits)

\* A present file becomes unreadable, or readable again.
SetReadable ==
  /\ pc = "idle"
  /\ nRuns > 0 /\ nRuns < MaxRuns
  /\ nEdits < MaxEdits
  /\ nEdits' = nEdits + 1
  /\ \E p \in Paths :
       /\ fs[p] # Absent
       /\ unreadable' = IF p \in unreadable THEN unreadable \ {p} ELSE unreadable \cup {p}
  /\ UNCHANGED <<fs, merkleFile, store, cacheMem, dirty, cacheFile, pc, run, out, prev, nRuns, collection, lastCall, fn>>

\* The Merkle state file is deleted, or replaced by text that does not parse,
\* or by JSON that is not an array.
TamperMerkle ==
  /\ pc = "idle"
  /\ nRuns > 0 /\ nRuns < MaxRuns
  /\ nEdits < MaxEdits
  /\ nEdits' = nEdits + 1
  /\ \E k \in {"missing", "unparseable", "object"} :
       /\ merkleFile.kind # k
       /\ merkleFile' = [kind |-> k, nodes |-> <<>>]
  /\ UNCHANGED <<fs, unreadable, store, cacheMem, dirty, cacheFile, pc, run, out, prev, nRuns, collection, lastCall, fn>>

\* ---------------------------------------------------------------- other calls
\* A call other than index() may be made between two index() calls.
CallAllowed == pc = "idle" /\ nRuns < MaxRuns /\ nEdits < MaxCalls

Call(op, ok, hits) ==
  [op |-> op, ok |-> ok, had |-> collection, hits |-> hits, at |-> nRuns]

\* Indexer.init -> VectorStore.ensureCollection: getCollection throws on a
\* missing collection, which is then created empty.
EnsureCollection ==
  /\ pc = "idle"
  /\ ~collection
  /\ collection' = TRUE
  /\ UNCHANGED <<fs, unreadable, merkleFile, store, cacheMem, dirty, cacheFile,
                 pc, run, out, prev, nRuns, nEdits, lastCall, fn>>

\* Indexer.search / Retriever.search: embed the query, then client.search,
\* which throws on a missing collection; neither caller catches.
Search ==
  /\ CallAllowed
  /\ nEdits' = nEdits + 1
  /\ \E topK \in 1..MaxTopK :
       lastCall' = IF collection
                   THEN Call("search", TRUE,
                             IF Cardinality(store) < topK THEN Cardinality(store) ELSE topK)
                   ELSE Call("search", FALSE, 0)
  /\ UNCHANGED <<fs, unreadable, merkleFile, store, cacheMem, dirty, cacheFile,
                 pc, run, out, prev, nRuns, collection, fn>>

\* EmbeddingCache.prune(maxAgeMs) on the cache of the live Indexer.
Prune ==
  /\ CallAllowed
  /\ nEdits' = nEdits + 1
  /\ \E maxAgeMs \in 0..MaxAge :
       LET kept == {e \in cacheMem : ~(Now - e.timestamp > maxAgeMs)}
           removed == Cardinality(cacheMem) - Cardinality(kept)
       IN /\ cacheMem' = kept
          /\ dirty' = (dirty \/ removed > 0)
          /\ lastCall' = Call("prune", TRUE, removed)
  /\ UNCHANGED <<fs, unreadable, merkleFile, store, cacheFile,
                 pc, run, out, prev, nRuns, collection, fn>>

\* EmbeddingCache.clear() on the cache of the live Indexer.
Clear ==
  /\ CallAllowed
  /\ nEdits' = nEdits + 1
  /\ cacheMem' = {}
  /\ dirty' = TRUE
  /\ lastCall' = Call("clear", TRUE, Cardinality(cacheMem))
  /\ UNCHANGED <<fs, unreadable, merkleFile, store, cacheFile,
                 pc, run, out, prev, nRuns, collection, fn>>

\* Indexer.reset: deleteCollection, cache.clear(), cache.save(), unlink of
\* the Merkle state file.
Reset ==
  /\ CallAllowed
  /\ nEdits' = nEdits + 1
  /\ collection' = FALSE
  /\ store' = {}
  /\ cacheMem' = {}
  /\ cacheFile' = [exists |-> TRUE, entries |-> {}]
  /\ dirty' = FALSE
  /\ merkleFile' = [kind |-> "missing", nodes |-> <<>>]
  /\ lastCall' = Call("reset", TRUE, 0)
  /\ UNCHANGED <<fs, unreadable, pc, run, out, prev, nRuns, fn>>

\* Indexer.reset when the deleteCollection request fails for another reason
\* than a missing collection: the catch of VectorStore.deleteCollection
\* swallows every error and reset goes on.
ResetDeleteSwallowed ==
  /\ CallAllowed
  /\ collection
  /\ nEdits' = nEdits + 1
  /\ cacheMem' = {}
  /\ cacheFile' = [exists |-> TRUE, entries |-> {}]
  /\ dirty' = FALSE
  /\ merkleFile' = [kind |-> "missing", nodes |-> <<>>]
  /\ lastCall' = Call("reset", TRUE, 0)
  /\ UNCHANGED <<fs, unreadable, store, pc, run, out, prev, nRuns, collection, fn>>

\* Indexer.reset when the write of cache.save() throws: reset raises with
\* the collection deleted and the Merkle state file still there.
ResetSaveFail ==
  /\ CallAllowed
  /\ nEdits' = nEdits + 1
  /\ collection' = FALSE
  /\ store' = {}
  /\ cacheMem' = {}
  /\ dirty' = TRUE
  /\ lastCall' = Call("reset", FALSE, 0)
  /\ UNCHANGED <<fs, unreadable, merkleFile, cacheFile, pc, run, out, prev, nRuns, fn>>

\* A vector-store request of index() on a missing collection throws.
CleanupOnMissing == ~collection /\ CleanupFail
UpsertOnMissing == ~collection /\ UpsertFail

\* File changes between two index() calls, within the budget of calls.
OpsWriteFile == WriteFileWithin(MaxCalls)
OpsRemoveFile == RemoveFileWithin(MaxCalls)

Next ==
  \/ IndexStart \/ CleanupOk \/ CleanupFail \/ ChunkStep \/ EmbedOk \/ EmbedFail
  \/ UpsertBatchOk \/ UpsertFail \/ PersistOk \/ SaveMerkleFail \/ CacheSaveFail
  \/ Crash \/ Restart
  \/ WriteFile \/ RemoveFile \/ SetReadable \/ TamperMerkle

Spec == Init /\ [][Next]_vars

\* ---------------------------------------------------------------- Merkle summary on its own
\* hashFiles, tsBuildMerkleTree and tsDiffMerkleTrees (steps 2-4 of index())
\* applied to an old and a new file tree.
MerklePaths == {<<"a">>, <<"d", "a">>, <<"d", "b">>, <<"d", "d", "a">>}
MerkleHashes == {Sha256(<<text>>) : text \in Texts}
NoFile == 0 - 1
Trees == [MerklePaths -> MerkleHashes \cup {NoFile}]

RECURSIVE SetToSeq(_)
SetToSeq(S) ==
  IF S = {} THEN <<>>
  ELSE LET x == CHOOSE y \in S : TRUE IN <<x>> \o SetToSeq(S \ {x})

\* The scanned files of a tree (sorted as tsScanDirectory returns them) with
\* their hashes.
FileHashesOf(tree) ==
  LET present == SetToSeq({p \in MerklePaths : tree[p] # NoFile})
      sorted == StableSort(present, PathKeys(present))
  IN [k \in 1..Len(sorted) |-> [path |-> sorted[k], hash |-> tree[sorted[k]]]]

MerkleApply(old, new, edits, kind, path) ==
  LET oldNodes == tsBuildMerkleTree(FileHashesOf(old))
      newLeaves == InsertLeaves(FileHashesOf(new), <<>>, <<>>)
      newNodes == tsBuildMerkleTree(FileHashesOf(new))
  IN [op |-> "merkle", old |-> old, new |-> new, edits |-> edits,
      kind |-> kind, path |-> path,
      oldNodes |-> oldNodes, newNodes |-> newNodes,
      missing |-> MissingAtBuild(DirOrder(FileHashesOf(new)),
                                 newLeaves.nodes, newLeaves.dirChildren),
      diff |-> tsDiffMerkleTrees(oldNodes, newNodes)]

Parked ==
  /\ fs = [p \in Paths |-> Absent]
  /\ unreadable = {}
  /\ merkleFile = [kind |-> "missing", nodes |-> <<>>]
  /\ store = {}
  /\ cacheMem = {}
  /\ dirty = FALSE
  /\ cacheFile = [exists |-> FALSE, entries |-> {}]
  /\ pc = "idle"
  /\ run = EmptyRun
  /\ out = NoOut
  /\ prev = Summary(NoOut)
  /\ nRuns = 0
  /\ nEdits = 0
  /\ collection = TRUE
  /\ lastCall = NoCall

InitMerkle ==
  /\ Parked
  /\ \E tree \in Trees : fn = MerkleApply(tree, tree, 0, "none", RootPath)

\* A file is added to the new tree; the summary is rebuilt and diffed.
MerkleAddFile ==
  /\ fn.edits < MaxMerkleEdits
  /\ \E p \in MerklePaths, h \in MerkleHashes :
       /\ fn.new[p] = NoFile
       /\ fn' = MerkleApply(fn.old, [fn.new EXCEPT ![p] = h], fn.edits + 1, "add", p)
  /\ UNCHANGED pipeline

\* The content of a file of the new tree changes.
MerkleChangeFile ==
  /\ fn.edits < MaxMerkleEdits
  /\ \E p \in MerklePaths, h \in MerkleHashes :
       /\ fn.new[p] # NoFile /\ fn.new[p] # h
       /\ fn' = MerkleApply(fn.old, [fn.new EXCEPT ![p] = h], fn.edits + 1, "change", p)
  /\ UNCHANGED pipeline

\* A file of the new tree is removed.
MerkleRemoveFile ==
  /\ fn.edits < MaxMerkleEdits
  /\ \E p \in MerklePaths :
       /\ fn.new[p] # NoFile
       /\ fn' = MerkleApply(fn.old, [fn.new EXCEPT ![p] = NoFile], fn.edits + 1, "remove", p)
  /\ UNCHANGED pipeline

NextMerkle == MerkleAddFile \/ MerkleChangeFile \/ MerkleRemoveFile

SpecMerkle == InitMerkle /\ [][NextMerkle]_vars

\* ---------------------------------------------------------------- chunker
\* ASTChunker.chunkFile from the segments of step 1 on: oversize expansion,
\* small-segment merge, chunks.  Lines are numbered from 0 as in the source;
\* a file is the sequence of the lengths of its lines.
LineLens == {1, 7}

Min(a, b) == IF a < b THEN a ELSE b

RECURSIVE CharCount(_, _, _)
\* charCount of estimateTokens: lines[i].length + 1 for i in startLine .. endLine.
CharCount(lines, startLine, endLine) ==
  IF startLine > Min(endLine, Len(lines) - 1) THEN 0
  ELSE lines[startLine + 1] + 1 + CharCount(lines, startLine + 1, endLine)

estimateTokens(lines, startLine, endLine) ==
  (CharCount(lines, startLine, endLine) + 3) \div 4

\* A Segment; the node type is the kind followed by the tags appended to it
\* (<<"class", "header">> is 'class_header').
Segment(startLine, endLine, nodeType, children, functionBlocks) ==
  [startLine |-> startLine, endLine |-> endLine, nodeType |-> nodeType,
   children |-> children, functionBlocks |-> functionBlocks]

RECURSIVE SplitChildren(_, _, _, _, _)
\* The loop of splitContainer over seg.children, from child k on.
SplitChildren(seg, lines, k, lastEnd, result) ==
  IF k > Len(seg.children) THEN [lastEnd |-> lastEnd, result |-> result]
  ELSE LET child == seg.children[k]
           from(start) == Segment(start, child.endLine, child.nodeType, <<>>,
                                  child.functionBlocks)
           pushed ==
             IF child.startLine > lastEnd
             THEN IF estimateTokens(lines, lastEnd, child.startLine - 1) >= minChunkTokens
                  THEN <<Segment(lastEnd, child.startLine - 1,
                                 Append(seg.nodeType, "header"), <<>>, <<>>),
                         from(child.startLine)>>
                  ELSE <<from(lastEnd)>>
             ELSE <<from(Min(lastEnd, child.startLine))>>
       IN SplitChildren(seg, lines, k + 1, child.endLine + 1, result \o pushed)

splitContainer(seg, lines) ==
  LET loop == SplitChildren(seg, lines, 1, seg.startLine, <<>>)
      lastEnd == loop.lastEnd
      result == loop.result
  IN IF lastEnd <= seg.endLine
     THEN IF estimateTokens(lines, lastEnd, seg.endLine) >= minChunkTokens
          THEN Append(result, Segment(lastEnd, seg.endLine,
                                      Append(seg.nodeType, "footer"), <<>>, <<>>))
          ELSE IF Len(result) > 0
               THEN [result EXCEPT ![Len(result)].endLine = seg.endLine]
               ELSE result
     ELSE result

RECURSIVE GroupBlocks(_, _, _, _, _, _, _)
\* The grouping loop of splitByBlocks, from block i on, and the last flush.
GroupBlocks(seg, blocks, lines, i, groupStart, groupEnd, result) ==
  IF i > Len(blocks)
  THEN Append(result, Segment(groupStart, seg.endLine,
                              Append(seg.nodeType, "block"), <<>>, <<>>))
  ELSE IF estimateTokens(lines, groupStart, blocks[i].endLine) > maxChunkTokens
       THEN GroupBlocks(seg, blocks, lines, i + 1, groupEnd + 1, blocks[i].endLine,
                        Append(result, Segment(groupStart, groupEnd,
                                               Append(seg.nodeType, "block"), <<>>, <<>>)))
       ELSE GroupBlocks(seg, blocks, lines, i + 1, groupStart, blocks[i].endLine, result)

splitByBlocks(seg, blocks, lines) ==
  IF Len(blocks) = 0
  THEN <<Segment(seg.startLine, seg.endLine, seg.nodeType, <<>>, <<>>)>>
  ELSE LET firstBlockStart == blocks[1].startLine
           headerEnd == firstBlockStart - 1
           headerPushed ==
             /\ firstBlockStart > seg.startLine
             /\ estimateTokens(lines, seg.startLine, headerEnd) >= minChunkTokens
           header == IF headerPushed
                     THEN <<Segment(seg.startLine, headerEnd,
                                    Append(seg.nodeType, "header"), <<>>, <<>>)>>
                     ELSE <<>>
       IN GroupBlocks(seg, blocks, lines, 2,
                      IF headerPushed THEN blocks[1].startLine ELSE seg.startLine,
                      blocks[1].endLine, header)

RECURSIVE LineParts(_, _, _, _, _, _)
\* The loop of splitByLineCount at line i, and the flush of the remaining lines.
LineParts(seg, lines, i, chunkStart, chunkChars, result) ==
  LET part(from, to) == Segment(from, to, Append(seg.nodeType, "part"), <<>>, <<>>)
  IN IF i > seg.endLine
     THEN IF chunkStart <= seg.endLine THEN Append(result, part(chunkStart, seg.endLine))
          ELSE result
     ELSE LET lineChars == (IF i < Len(lines) THEN lines[i + 1] ELSE 0) + 1
          IN IF chunkChars + lineChars > maxChunkTokens * 4 /\ i > chunkStart
             THEN LineParts(seg, lines, i + 1, i, lineChars,
                            Append(result, part(chunkStart, i - 1)))
             ELSE LineParts(seg, lines, i + 1, chunkStart, chunkChars + lineChars, result)

splitByLineCount(seg, lines) == LineParts(seg, lines, seg.startLine, seg.startLine, 0, <<>>)

\* expandSegment on a segment without children: split by blocks, else by
\* lines, else keep.
ExpandLeaf(seg, lines) ==
  LET tokenCount == estimateTokens(lines, seg.startLine, seg.endLine)
  IN IF Len(seg.functionBlocks) > 1 /\ tokenCount > maxChunkTokens
     THEN splitByBlocks(seg, seg.functionBlocks, lines)
     ELSE IF tokenCount > maxChunkTokens
          THEN splitByLineCount(seg, lines)
          ELSE <<Segment(seg.startLine, seg.endLine, seg.nodeType, <<>>, <<>>)>>

RECURSIVE Concat(_)
Concat(ss) == IF ss = <<>> THEN <<>> ELSE Head(ss) \o Concat(Tail(ss))

\* expandSegment: the sub-results of splitContainer have no children, so the
\* recursion on them is ExpandLeaf.
expandSegment(seg, lines) ==
  IF Len(seg.children) > 0
       /\ estimateTokens(lines, seg.startLine, seg.endLine) > maxChunkTokens
  THEN LET subResults == splitContainer(seg, lines)
       IN Concat([k \in 1..Len(subResults) |-> ExpandLeaf(subResults[k], lines)])
  ELSE ExpandLeaf(seg, lines)

expandOversizedSegments(segments, lines) ==
  Concat([k \in 1..Len(segments) |-> expandSegment(segments[k], lines)])

\* Mutant: only a small current segment is merged forward.
MergeNeeded_CurrentOnly(currentTokens, nextTokens) == currentTokens < minChunkTokens

\* if (currentTokens < this.minChunkTokens || nextTokens < this.minChunkTokens)
MergeNeeded(currentTokens, nextTokens) ==
  currentTokens < minChunkTokens \/ nextTokens < minChunkTokens

RECURSIVE MergeLoop(_, _, _, _, _, _)
\* The loop of mergeSmallSegments at segment i, and the last push.
MergeLoop(segments, lines, i, current, currentTokens, result) ==
  IF i > Len(segments) THEN Append(result, current)
  ELSE LET next == segments[i]
           nextTokens == estimateTokens(lines, next.startLine, next.endLine)
       IN IF MergeNeeded(currentTokens, nextTokens)
          THEN LET merged == [current EXCEPT
                                !.endLine = next.endLine,
                                !.nodeType = IF currentTokens < nextTokens
                                             THEN next.nodeType ELSE @]
               IN MergeLoop(segments, lines, i + 1, merged,
                            estimateTokens(lines, merged.startLine, merged.endLine), result)
          ELSE MergeLoop(segments, lines, i + 1, next, nextTokens, Append(result, current))

mergeSmallSegments(segments, lines) ==
  IF Len(segments) = 0 THEN <<>>
  ELSE MergeLoop(segments, lines, 2, segments[1],
                 estimateTokens(lines, segments[1].startLine, segments[1].endLine), <<>>)

\* Step 4 of chunkFile: the chunks, with 1-based lines.
ChunksOf(segments) ==
  [k \in 1..Len(segments) |->
     [startLine |-> segments[k].startLine + 1, endLine |-> segments[k].endLine + 1,
      nodeType |-> segments[k].nodeType]]

\* pendingCommentStart === null
NoPending == 0 - 1

\* chunkFile on the lines of a file and the segments of step 1; pending is
\* pendingCommentStart after the last root child.
ChunkApply(lines, raw, pending) ==
  LET expanded == expandOversizedSegments(raw, lines)
      merged == mergeSmallSegments(expanded, lines)
  IN [op |-> "chunk", lines |-> lines, raw |-> raw, pending |-> pending,
      expanded |-> expanded, merged |-> merged, chunks |-> ChunksOf(merged)]

\* What the parser can hand to step 1 for a node on lines s .. e: the line
\* ranges of up to n nodes in source order, a node starting no earlier than
\* the line on which the node before it ends.
Ranges(s, e) == {<<a, b>> : a \in s..e, b \in s..e} \cap {r \in (s..e) \X (s..e) : r[1] <= r[2]}

RECURSIVE RangeLists(_, _, _)
RangeLists(s, e, n) ==
  IF n = 0 THEN {<<>>}
  ELSE {<<>>} \cup
       UNION {{<<r>> \o rest : rest \in RangeLists(r[2], e, n - 1)} : r \in Ranges(s, e)}

\* extractFunctionBlocks of a method on lines a .. b whose signature is the
\* first line and whose body has one statement per following line.
MethodBlocks(a, b) ==
  IF b - a < 2 THEN <<>>
  ELSE [k \in 1..(b - a) |-> Segment(a + k, a + k, <<"statement">>, <<>>, <<>>)]

\* extractContainerChildren for given child ranges: the members of a class or
\* interface body are recorded without function blocks.
ClassKidsOf(ranges) ==
  [k \in 1..Len(ranges) |->
     Segment(ranges[k][1], ranges[k][2], <<"method">>, <<>>, <<>>)]

\* extractObjectProperties for given child ranges: the methods of an object
\* literal are recorded with their function blocks.
KidsOf(ranges) ==
  [k \in 1..Len(ranges) |->
     Segment(ranges[k][1], ranges[k][2], <<"method">>, <<>>,
             MethodBlocks(ranges[k][1], ranges[k][2]))]

\* extractFunctionBlocks for given block ranges.
BlocksOf(ranges) ==
  [k \in 1..Len(ranges) |-> Segment(ranges[k][1], ranges[k][2], <<"statement">>, <<>>, <<>>)]

\* The segments step 1 can make of a top-level node on lines s .. e: a plain
\* statement, a class or an object literal with children, or a function with
\* logical blocks.
NodeSegments(s, e) ==
  {Segment(s, e, <<"statement">>, <<>>, <<>>)}
    \cup {Segment(s, e, <<"class">>, ClassKidsOf(kids), <<>>) :
            kids \in RangeLists(s, e, MaxKids) \ {<<>>}}
    \cup {Segment(s, e, <<"object">>, KidsOf(kids), <<>>) :
            kids \in RangeLists(s, e, MaxKids) \ {<<>>}}
    \cup {Segment(s, e, <<"function">>, <<>>, BlocksOf(blocks)) :
            blocks \in {b \in RangeLists(s, e, MaxBlocks) : Len(b) > 1}}

InitChunk ==
  /\ Parked
  /\ fn = ChunkApply(<<>>, <<>>, NoPending)

\* The file grows by one top-level node of a semantic kind, on new lines or
\* starting on the last line of the root child before it; its segment starts
\* at the pending comment, if any; chunkFile is applied to the file.
ParseNode ==
  /\ fn.op = "chunk"
  /\ Len(fn.raw) < MaxNodes
  /\ \E sameLine \in BOOLEAN, span \in 1..MaxSpan :
       LET n == Len(fn.lines)
           s == IF sameLine THEN n - 1 ELSE n
           e == s + span - 1
       IN /\ sameLine => n > 0
          /\ e + 1 <= MaxLines
          /\ \E more \in [1..(e + 1 - n) -> LineLens], seg \in NodeSegments(s, e) :
               fn' = ChunkApply(fn.lines \o more,
                                Append(fn.raw,
                                       IF fn.pending # NoPending
                                       THEN [seg EXCEPT !.startLine = fn.pending]
                                       ELSE seg),
                                NoPending)
  /\ UNCHANGED pipeline

\* The file grows by a top-level comment, on a new line or on the last line
\* of the root child before it: the first of a run of comments is pending.
ParseComment ==
  /\ fn.op = "chunk"
  /\ \E sameLine \in BOOLEAN :
       LET n == Len(fn.lines)
           row == IF sameLine THEN n - 1 ELSE n
           pending == IF fn.pending = NoPending THEN row ELSE fn.pending
       IN /\ sameLine => n > 0
          /\ row + 1 <= MaxLines
          /\ \E more \in [1..(row + 1 - n) -> LineLens] :
               fn' = ChunkApply(fn.lines \o more, fn.raw, pending)
  /\ UNCHANGED pipeline

\* The file grows by a top-level ERROR node or a node of a kind outside
\* SEMANTIC_NODE_TYPES: it is skipped and the pending comment is dropped.
ParseSkipped ==
  /\ fn.op = "chunk"
  /\ \E sameLine \in BOOLEAN :
       LET n == Len(fn.lines)
           row == IF sameLine THEN n - 1 ELSE n
       IN /\ sameLine => n > 0
          /\ row + 1 <= MaxLines
          /\ \E more \in [1..(row + 1 - n) -> LineLens] :
               fn' = ChunkApply(fn.lines \o more, fn.raw, NoPending)
  /\ UNCHANGED pipeline

NextChunk == ParseNode \/ ParseComment \/ ParseSkipped

SpecChunk == InitChunk /\ [][NextChunk]_vars

\* A new Indexer over a fresh root, before init(): the collection may or may
\* not exist yet; every present file is readable.
InitOps ==
  /\ fs \in [Paths -> Contents \cup {Absent}]
  /\ unreadable = {}
  /\ merkleFile = [kind |-> "missing", nodes |-> <<>>]
  /\ store = {}
  /\ cacheMem = {}
  /\ dirty = FALSE
  /\ cacheFile = [exists |-> FALSE, entries |-> {}]
  /\ pc = "idle"
  /\ run = EmptyRun
  /\ out = NoOut
  /\ prev = Summary(NoOut)
  /\ nRuns = 0
  /\ nEdits = 0
  /\ collection \in BOOLEAN
  /\ lastCall = NoCall
  /\ fn = NoFn

NextOps ==
  \/ IndexStart \/ CleanupOk \/ CleanupOnMissing \/ ChunkStep \/ EmbedOk
  \/ UpsertBatchOk \/ UpsertOnMissing \/ PersistOk
  \/ OpsWriteFile \/ OpsRemoveFile
  \/ EnsureCollection \/ Search \/ Prune \/ Clear
  \/ Reset \/ ResetDeleteSwallowed \/ ResetSaveFail

SpecOps == InitOps /\ [][NextOps]_vars

\* ---------------------------------------------------------------- claims
\* The run has ended and no file changed since it began.
Settled == pc = "idle" /\ nEdits = 0
Succeeded == Settled /\ out.status = "returned"

\* The content hashes of the chunks the file at p has now.
\* (No chunks when the file is absent, unreadable or does not parse.)
CurrentHashes(p) ==
  IF ChunkFails(p) THEN {}
  ELSE {chunkFile(p, fs[p])[k].contentHash : k \in 1..Len(fs[p])}

\* C1: when index() returns after a previous index() call that returned, and
\* no file changed in between, the second call reports newChunks = 0,
\* cachedChunks = 0 and totalChunks = 0 and has issued no embedding-provider
\* call, no vector-store delete and no upsert request.
C1_SecondRunIsNoOp ==
  (out.status = "returned" /\ prev.status = "returned" /\ out.untouched)
    => /\ out.stats.newChunks = 0
       /\ out.stats.cachedChunks = 0
       /\ out.stats.totalChunks = 0
       /\ out.embedded = <<>>
       /\ out.deletes = 0
       /\ out.upserts = 0

\* A second run with no change in between, after a first run that chunked files.
C1_Witness ==
  /\ out.status = "returned" /\ prev.status = "returned" /\ out.untouched
  /\ prev.selected # {}
  /\ out.hashed # {}

\* C2: the files index() chunks are all scanned files when the loaded
\* summary is empty, and exactly the added and modified paths of the diff
\* otherwise; a file whose hash equals the one in the loaded summary is
\* neither chunked nor embedded.
C2_SelectsChangedFiles ==
  out.didChunk =>
    /\ out.selected = IF out.oldLength = 0 THEN out.scanned
                      ELSE Range(out.diff.added) \cup Range(out.diff.modified)
    /\ out.chunked \subseteq out.selected
    /\ \A k \in 1..Len(out.embedded) : out.embedded[k].filePath \in out.chunked
    /\ (out.merkleBefore.kind = "nodes" /\ nEdits = 0) =>
         \A p \in out.hashed :
           (HasFile(out.merkleBefore.nodes, p)
              /\ FileHashIn(out.merkleBefore.nodes, p) = Sha256(fs[p]))
             => p \notin out.selected

\* An incremental run that chunks one file and leaves an unchanged file alone.
C2_Witness ==
  /\ out.didChunk /\ out.oldLength > 0 /\ nEdits = 0
  /\ out.chunked # {}
  /\ \E p \in out.hashed : p \notin out.selected
  /\ out.embedded # <<>>

\* C3: in a run whose diff has removed or modified files the path
\* filter-delete is issued before any upsert and leaves no record with a
\* removed or modified path; after the run has returned, no record has the
\* path of a removed file and every record with the path of a modified file
\* carries the content hash of one of that file's current chunks.
C3_DeleteBeforeUpsert ==
  /\ pc = "cleanup" => out.upserts = 0
  /\ (out.upserts > 0 /\ NeedsCleanup(out.diff)) => out.deletes = 1
  /\ (pc = "chunk" /\ NeedsCleanup(out.diff)) =>
       \A r \in store :
         r.payload.filePath \notin Range(out.diff.removed) \cup Range(out.diff.modified)
  /\ Succeeded =>
       \A r \in store :
         /\ r.payload.filePath \notin Range(out.diff.removed)
         /\ r.payload.filePath \in Range(out.diff.modified)
              => r.payload.contentHash \in CurrentHashes(r.payload.filePath)

\* A run that deleted the old record of a modified file and upserted its new one.
C3_Witness ==
  /\ Succeeded /\ out.deletes = 1 /\ out.upserts > 0
  /\ \E r \in store : r.payload.filePath \in Range(out.diff.modified)

\* Number of client.upsert requests VectorStore.upsert makes for n points.
Requests(n) == (n + UpsertBatch - 1) \div UpsertBatch

\* C4: the Merkle state file is not written while a run is in progress, and
\* the step that writes it is reached only when every upsert request of the
\* run has succeeded; a failed upsert makes index() raise with the file as it
\* was before the run, and the next run, with no file changed, computes the
\* same diff.
C4_MerkleAfterUpsert ==
  /\ out.status = "running" => merkleFile = out.merkleBefore
  /\ pc = "persist" =>
       /\ run.i >= Len(run.points)
       /\ out.upserts = Requests(Len(run.points))
       /\ \A k \in 1..Len(run.points) : \E r \in store : r.id = run.points[k].id
  /\ (Settled /\ out.status = "raised" /\ out.stage = "upsert")
       => merkleFile = out.merkleBefore
  /\ (prev.status = "raised" /\ prev.stage = "upsert" /\ out.untouched
        /\ out.status # "none")
       => out.diff = prev.diff /\ out.stage # "diff"

\* A run whose upsert failed, then a run with no file changed that issued
\* several upsert requests and returned.
C4_Witness ==
  /\ prev.status = "raised" /\ prev.stage = "upsert" /\ out.untouched
  /\ Succeeded /\ out.upserts > 1
  /\ merkleFile # out.merkleBefore

\* C7: when the embedding provider fails, index() raises with no upsert
\* request issued and the Merkle state file as it was before the run; the
\* next run, with no file changed, computes the same diff, selects the same
\* files and calls the provider again.
C7_EmbedFailureAborts ==
  /\ (out.status = "raised" /\ out.stage = "embed") =>
       /\ out.upserts = 0
       /\ nEdits = 0 => merkleFile = out.merkleBefore
  /\ (prev.status = "raised" /\ prev.stage = "embed" /\ out.untouched
        /\ out.status # "none") =>
       /\ out.diff = prev.diff
       /\ out.didChunk =>
            /\ out.selected = prev.selected
            /\ pc = "embed" \/ out.stage = "embed" \/ out.embedded # <<>>

\* A run whose embedding failed, then a run with no file changed that
\* embedded and returned.
C7_Witness ==
  /\ prev.status = "raised" /\ prev.stage = "embed" /\ out.untouched
  /\ Succeeded /\ out.embedded # <<>> /\ out.upserts > 0

RECURSIVE SumLen(_)
SumLen(S) ==
  IF S = {} THEN 0
  ELSE LET p == CHOOSE q \in S : TRUE IN Len(fs[p]) + SumLen(S \ {p})

\* C8: a selected file that cannot be read or parsed at the chunk step is
\* reported to the progress sink and contributes no chunk, and index() does
\* not raise at that step; the chunks of every other selected file are
\* counted, and when the run returns they are in the cache and in the store.
C8_ChunkFailureSkipped ==
  /\ ~(out.status = "raised" /\ out.stage = "chunk")
  /\ (out.didChunk /\ nEdits = 0) =>
       /\ out.reported = {p \in out.selected : ChunkFails(p)}
       /\ out.chunked = out.selected \ out.reported
       /\ out.totalPoints = SumLen(out.chunked)
  /\ (Succeeded /\ out.didChunk) =>
       /\ out.stats.totalChunks = out.totalPoints
       /\ \A p \in out.chunked : \A h \in CurrentHashes(p) :
            /\ h \in out.upserted
            /\ \E r \in store : r.payload.contentHash = h
            /\ CacheHas(cacheMem, h)

\* A run that returned with one selected file skipped and another upserted.
C8_Witness ==
  /\ Succeeded /\ out.didChunk
  /\ out.reported # {} /\ out.chunked # {} /\ out.upserts > 0

\* The paths of the file nodes of the persisted Merkle summary.
SummaryFiles ==
  IF merkleFile.kind = "nodes" THEN Range(FilePathsOf(merkleFile.nodes)) ELSE {}

\* C5: after every run that returned (here: with no file skipped at the
\* chunk step), the vector store holds a record for every chunk content hash
\* of every file recorded in the persisted Merkle summary.
C5_EveryReferencedHashHasRecord ==
  (Succeeded /\ out.reported = {}) =>
    \A p \in SummaryFiles : \A h \in CurrentHashes(p) :
      \E r \in store : r.payload.contentHash = h

\* A record is stale when its payload path names no present file or its
\* content hash is not the hash of a chunk of that file.
Stale(r) ==
  \/ fs[r.payload.filePath] = Absent
  \/ r.payload.contentHash \notin CurrentHashes(r.payload.filePath)

\* C6: when a run crashed after its upsert and before the Merkle state was
\* written, the next run that returns (here: with no file skipped at the
\* chunk step) leaves no stale record in the store.
C6_CrashBeforePersistIsReconciled ==
  (Succeeded /\ out.reported = {} /\ prev.status = "crashed" /\ prev.stage = "persist")
    => \A r \in store : ~Stale(r)

\* C9: in a run that returned, every scanned file whose hashing failed was
\* reported to the progress sink, was not chunked, and has no node in the
\* Merkle summary the run persisted.
C9_HashFailureLoggedAndAbsent ==
  Succeeded =>
    \A p \in out.scanned \ out.hashed :
      /\ p \in out.reported
      /\ p \notin out.chunked
      /\ p \notin SummaryFiles

\* C10: index() never raises while loading and diffing the saved summary,
\* and a saved summary that is missing or is not a serialized node list is
\* treated as no prior index: all scanned files are selected.
C10_CorruptSummaryNeverRaises ==
  /\ ~(out.status = "raised" /\ out.stage = "diff")
  /\ (out.didChunk /\ out.merkleBefore.kind # "nodes") =>
       /\ out.oldLength = 0
       /\ out.selected = out.scanned

\* C11: a failed write of the embedding cache at the end of a run is not
\* fatal: index() does not raise at cache.save(), it returns its stats, and
\* once the run has ended the Merkle summary written by that run is in place.
C11_CachePersistFailureNotFatal ==
  /\ ~(out.status = "raised" /\ out.stage = "cacheSave")
  /\ (Settled /\ out.status = "returned" /\ out.didChunk) =>
       /\ merkleFile.kind = "nodes"
       /\ out.stats.totalChunks = out.totalPoints

\* C12: when the vector-store collection does not exist, search(query, k)
\* does not raise and reports zero results.
C12_SearchOnMissingCollection ==
  (lastCall.op = "search" /\ ~lastCall.had) => (lastCall.ok /\ lastCall.hits = 0)

\* The points of a run when every vector comes from the provider: what
\* step 9 upserts when the cache is empty.
PointsOf(chunks) ==
  [k \in 1..Len(chunks) |-> Point(chunks[k], Embedding(chunks[k].content))]

\* C13: whatever the cache holds when a run begins (entries removed by
\* prune() or clear() or none), once its upserts are done the store is the
\* store as it was after the cleanup step with the points of all chunks of
\* the run upserted, each with the provider's vector, and the Merkle summary
\* about to be persisted is the one built from the scanned files; only the
\* split of totalChunks into newChunks and cachedChunks depends on the cache.
C13_CacheRemovalKeepsResult ==
  pc = "persist" =>
    /\ store = upsertBatch(run.base, PointsOf(run.allChunks))
    /\ run.newMerkleNodes = tsBuildMerkleTree(tsSha256HashFiles(run.filePaths))
    /\ Len(run.uncachedChunks) + Len(run.cachedResults) = Len(run.allChunks)
    /\ \A k \in 1..Len(run.cachedResults) :
         CacheHas(cacheMem, run.cachedResults[k].chunk.contentHash)

\* A run after prune() removed some but not all entries: one chunk is served
\* from the cache and another, indexed before and pruned since, is embedded again.
C13_Witness ==
  /\ pc = "persist"
  /\ lastCall.op = "prune" /\ lastCall.hits > 0 /\ lastCall.at = nRuns - 1
  /\ Len(run.cachedResults) > 0
  /\ \E k \in 1..Len(run.uncachedChunks) :
       \E r \in run.base : r.id = run.uncachedChunks[k].chunkId

\* C14: once reset() has completed, the collection is gone (no record is
\* left), the cache is empty in memory and in its file, and the Merkle
\* state file is absent; the index() call that follows processes every
\* scanned file and returns cachedChunks = 0 and newChunks = totalChunks.
C14_ResetGivesColdStart ==
  /\ (lastCall.op = "reset" /\ lastCall.ok /\ lastCall.at = nRuns /\ pc = "idle") =>
       /\ store = {}
       /\ cacheMem = {}
       /\ cacheFile.entries = {}
       /\ merkleFile.kind = "missing"
  /\ (lastCall.op = "reset" /\ lastCall.ok /\ lastCall.at = nRuns - 1 /\ out.didChunk) =>
       /\ out.selected = out.scanned
       /\ out.status = "returned" =>
            /\ out.stats.cachedChunks = 0
            /\ out.stats.newChunks = out.stats.totalChunks

\* The file paths of a tree.
FilesIn(tree) == {p \in MerklePaths : tree[p] # NoFile}

\* C15: the diff of the summaries of an old and a new tree lists file paths
\* only, each once: added are the paths only in the new tree, removed the
\* paths only in the old one, modified the paths in both whose hashes
\* differ; the three are pairwise disjoint and all empty when the trees are
\* equal; one added file gives exactly that path in added, one changed file
\* exactly that path in modified.
C15_DiffOfFileNodes ==
  fn.op = "merkle" =>
    LET A == Range(fn.diff.added)
        M == Range(fn.diff.modified)
        R == Range(fn.diff.removed)
    IN /\ A = FilesIn(fn.new) \ FilesIn(fn.old)
       /\ R = FilesIn(fn.old) \ FilesIn(fn.new)
       /\ M = {p \in FilesIn(fn.old) \cap FilesIn(fn.new) : fn.old[p] # fn.new[p]}
       /\ Len(fn.diff.added) = Cardinality(A)
       /\ Len(fn.diff.modified) = Cardinality(M)
       /\ Len(fn.diff.removed) = Cardinality(R)
       /\ A \cap M = {} /\ A \cap R = {} /\ M \cap R = {}
       /\ fn.new = fn.old => fn.diff = NoDiff
       /\ (fn.edits = 1 /\ fn.kind = "add") =>
            fn.diff = [NoDiff EXCEPT !.added = <<fn.path>>]
       /\ (fn.edits = 1 /\ fn.kind = "change") =>
            fn.diff = [NoDiff EXCEPT !.modified = <<fn.path>>]

\* One file of a tree with directories and other files changed its content.
C15_Witness ==
  /\ fn.op = "merkle" /\ fn.edits = 1 /\ fn.kind = "change"
  /\ fn.diff.modified = <<fn.path>>
  /\ Cardinality(FilesIn(fn.new)) > 2
  /\ \E i \in 1..Len(fn.newNodes) : ~fn.newNodes[i].isFile /\ fn.newNodes[i].path # RootPath

\* The hash of the node of a path in a node list.
NodeHashOf(nodes, p) == (CHOOSE n \in Range(nodes) : n.path = p).hash

\* The directories a file path lies in: the root and every proper prefix.
Ancestors(p) == {RootPath} \cup {SubSeq(p, 1, k) : k \in 1..(Len(p) - 1)}

\* C16: in the built summary every directory node lists its direct children
\* sorted by path, and its hash is the digest of the children's hashes
\* concatenated in that order.  (Stated for the directories whose children
\* all had a hash when the directory was hashed.)
C16_DirHashInPathOrder ==
  fn.op = "merkle" =>
    \A i \in 1..Len(fn.newNodes) :
      LET n == fn.newNodes[i]
      IN (~n.isFile /\ ~\E m \in fn.missing : m.dir = n.path) =>
           /\ n.children = StableSort(n.children, PathKeys(n.children))
           /\ n.hash = Sha256([k \in 1..Len(n.children) |->
                                 NodeHashOf(fn.newNodes, n.children[k])])

\* C17: for every file list the build hashes no directory before all its
\* children have a hash, every ancestor directory of every file is a
\* directory node of the summary, and the root node has path ".".
C17_ChildrenHashedFirst ==
  fn.op = "merkle" =>
    /\ fn.missing = {}
    /\ \A p \in FilesIn(fn.new) : \A d \in Ancestors(p) :
         \E i \in 1..Len(fn.newNodes) :
           fn.newNodes[i].path = d /\ ~fn.newNodes[i].isFile
    /\ FilesIn(fn.new) # {} =>
         \E i \in 1..Len(fn.newNodes) : fn.newNodes[i].path = RootPath

\* ---------------------------------------------------------------- C18
Last(s) == s[Len(s)]

Overlap(a, b) == a.startLine <= b.endLine /\ b.startLine <= a.endLine

\* The containers of the file that expandSegment hands to splitContainer.
OversizeContainers ==
  {k \in 1..Len(fn.raw) :
     /\ Len(fn.raw[k].children) > 0
     /\ estimateTokens(fn.lines, fn.raw[k].startLine, fn.raw[k].endLine) > maxChunkTokens}

\* C18: in the segments splitContainer makes of an oversize container, no
\* two child segments share a line and no child segment shares a line with a
\* header segment, whatever the arrangement of the children.
C18_ChildSegmentsDisjoint ==
  fn.op = "chunk" =>
    \A k \in OversizeContainers :
      LET subResults == splitContainer(fn.raw[k], fn.lines)
      IN \A i \in 1..Len(subResults), j \in 1..Len(subResults) :
           (i < j /\ Last(subResults[i].nodeType) # "footer"
                  /\ Last(subResults[j].nodeType) \notin {"header", "footer"})
             => ~Overlap(subResults[i], subResults[j])

\* ---------------------------------------------------------------- C19
TokensOf(seg) == estimateTokens(fn.lines, seg.startLine, seg.endLine)

\* The line-split fallback produced some segment of the file.
LineSplitUsed == \E k \in 1..Len(fn.expanded) : Last(fn.expanded[k].nodeType) = "part"

\* C19: in a file chunked without the line-split fallback, every chunk
\* returned by chunkFile has a token estimate of at most maxChunkTokens.
C19_ChunksWithinCeiling ==
  (fn.op = "chunk" /\ ~LineSplitUsed) =>
    \A k \in 1..Len(fn.merged) : TokensOf(fn.merged[k]) <= maxChunkTokens

\* ---------------------------------------------------------------- C20
\* C20: every chunk returned by chunkFile has a token estimate of at least
\* minChunkTokens, unless it is the only chunk of its file.
C20_ChunksAboveFloor ==
  (fn.op = "chunk" /\ Len(fn.merged) > 1) =>
    \A k \in 1..Len(fn.merged) : TokensOf(fn.merged[k]) >= minChunkTokens

\* A file whose expansion has small segments in the middle and at the end,
\* chunked into more than one chunk.
C20_Witness ==
  /\ fn.op = "chunk"
  /\ Len(fn.merged) > 1
  /\ Len(fn.expanded) > Len(fn.merged) + 1
  /\ TokensOf(Last(fn.expanded)) < minChunkTokens
  /\ \E k \in 2..(Len(fn.expanded) - 1) : TokensOf(fn.expanded[k]) < minChunkTokens

\* ---------------------------------------------------------------- C21
\* C21: chunkFile returns at least one chunk for every non-empty file,
\* whatever the kinds of its top-level nodes, and the line range of every
\* chunk lies within 1 .. the number of lines of the file.
C21_NonEmptyFileHasChunk ==
  (fn.op = "chunk" /\ Len(fn.lines) > 0) =>
    /\ Len(fn.chunks) >= 1
    /\ \A k \in 1..Len(fn.chunks) :
         fn.chunks[k].startLine >= 1 /\ fn.chunks[k].endLine <= Len(fn.lines)

\* ---------------------------------------------------------------- C22
\* The segments splitContainer makes of the children, in child order.
ChildSubs(subResults) ==
  SelectSeq(subResults, LAMBDA sub : Last(sub.nodeType) \notin {"header", "footer"})

\* Child i of oversize container k is a method with more than one logical
\* block whose segment is oversize.
GiantMethod(k, i) ==
  LET child == fn.raw[k].children[i]
      sub == ChildSubs(splitContainer(fn.raw[k], fn.lines))[i]
  IN /\ Len(MethodBlocks(child.startLine, child.endLine)) > 1
     /\ TokensOf(sub) > maxChunkTokens

\* C22: when an oversize container is split into per-child segments, a
\* method that is itself oversize and has more than one logical block is
\* split by its logical blocks and not by lines.
C22_GiantMethodSplitByBlocks ==
  fn.op = "chunk" =>
    \A k \in OversizeContainers : \A i \in 1..Len(fn.raw[k].children) :
      GiantMethod(k, i) =>
        LET sub == ChildSubs(splitContainer(fn.raw[k], fn.lines))[i]
            parts == ExpandLeaf(sub, fn.lines)
        IN /\ \E p \in 1..Len(parts) : Last(parts[p].nodeType) = "block"
           /\ \A p \in 1..Len(parts) : Last(parts[p].nodeType) # "part"

\* ---------------------------------------------------------------- C27
\* The functions of the file that expandSegment hands to splitByBlocks.
OversizeFunctions ==
  {k \in 1..Len(fn.raw) :
     /\ Len(fn.raw[k].children) = 0
     /\ Len(fn.raw[k].functionBlocks) > 1
     /\ TokensOf(fn.raw[k]) > maxChunkTokens}

\* parts is a partition of the lines of seg into consecutive non-empty ranges.
IsPartition(parts, seg) ==
  /\ Len(parts) > 0
  /\ parts[1].startLine = seg.startLine
  /\ Last(parts).endLine = seg.endLine
  /\ \A p \in 1..Len(parts) : parts[p].startLine <= parts[p].endLine
  /\ \A p \in 1..(Len(parts) - 1) : parts[p + 1].startLine = parts[p].endLine + 1

\* C27: the header and the block groups splitByBlocks makes of an oversize
\* function are a gap-free, non-overlapping partition of the lines of the
\* segment, every part with start <= end, for every ordered block list.
C27_BlockGroupsPartition ==
  fn.op = "chunk" =>
    \A k \in OversizeFunctions :
      IsPartition(splitByBlocks(fn.raw[k], fn.raw[k].functionBlocks, fn.lines), fn.raw[k])

\* ---------------------------------------------------------------- batcher
\* Embedder._openaiBatchEmbed on its own.  A text is its length; a request
\* is the sequence of the positions (from 1) of the texts it carries.
TextLens == {0, 2, 6, 13}

\* Embedder._estimateTokens: Math.ceil(text.length / 3)
EstimateTextTokens(text) == (text + 2) \div 3

\* Mutant: the limit on the number of inputs of a request is not applied.
BatchFull_NoCount(batchTokens, tokensForThis, batchLength) ==
  batchTokens + tokensForThis > MAX_TOKENS_PER_REQUEST

\* The break condition of the inner loop.
BatchFull(batchTokens, tokensForThis, batchLength) ==
  \/ batchTokens + tokensForThis > MAX_TOKENS_PER_REQUEST
  \/ batchLength >= MAX_INPUTS_PER_REQUEST

RECURSIVE TakeBatch(_, _, _, _)
\* The inner loop at text i: the batch that starts at batchStart.
TakeBatch(texts, i, batch, batchTokens) ==
  IF i > Len(texts) THEN batch
  ELSE LET tokensForThis == EstimateTextTokens(texts[i])
       IN IF Len(batch) = 0
          THEN TakeBatch(texts, i + 1, <<i>>, batchTokens + tokensForThis)
          ELSE IF BatchFull(batchTokens, tokensForThis, Len(batch)) THEN batch
               ELSE TakeBatch(texts, i + 1, Append(batch, i), batchTokens + tokensForThis)

RECURSIVE BatchLoop(_, _, _)
\* The outer loop; batchStart counts the texts already sent.
BatchLoop(texts, batchStart, requests) ==
  IF batchStart >= Len(texts) THEN requests
  ELSE LET batch == TakeBatch(texts, batchStart + 1, <<>>, 0)
       IN BatchLoop(texts, batchStart + Len(batch), Append(requests, batch))

\* Embedder._openaiEmbed on the texts of a request: one vector per input, in
\* the order of the inputs (the response is sorted by index).
OpenaiEmbed(texts, batch) == [k \in 1..Len(batch) |-> Embedding(texts[batch[k]])]

BatchApply(texts) ==
  LET requests == BatchLoop(texts, 0, <<>>)
  IN [op |-> "batch", texts |-> texts, requests |-> requests,
      all |-> Concat([r \in 1..Len(requests) |-> OpenaiEmbed(texts, requests[r])])]

InitBatch ==
  /\ Parked
  /\ fn = BatchApply(<<>>)

\* embedBatch is called with one more text.
BatchAddText ==
  /\ fn.op = "batch"
  /\ Len(fn.texts) < MaxTexts
  /\ \E text \in TextLens : fn' = BatchApply(Append(fn.texts, text))
  /\ UNCHANGED pipeline

NextBatch == BatchAddText

SpecBatch == InitBatch /\ [][NextBatch]_vars

\* ---------------------------------------------------------------- C23
RECURSIVE SumTokens(_, _)
SumTokens(texts, batch) ==
  IF batch = <<>> THEN 0
  ELSE EstimateTextTokens(texts[Head(batch)]) + SumTokens(texts, Tail(batch))

\* C23: every text is sent in exactly one request, in the original order,
\* and one vector per text comes back in that order; every request is
\* non-empty, has at most MAX_INPUTS_PER_REQUEST texts, and has one text or
\* an estimate of at most MAX_TOKENS_PER_REQUEST.
C23_BatchesCoverInOrder ==
  fn.op = "batch" =>
    /\ Concat(fn.requests) = [i \in 1..Len(fn.texts) |-> i]
    /\ fn.all = [i \in 1..Len(fn.texts) |-> Embedding(fn.texts[i])]
    /\ \A r \in 1..Len(fn.requests) :
         /\ Len(fn.requests[r]) >= 1
         /\ Len(fn.requests[r]) <= MAX_INPUTS_PER_REQUEST
         /\ \/ Len(fn.requests[r]) = 1
            \/ SumTokens(fn.texts, fn.requests[r]) <= MAX_TOKENS_PER_REQUEST

\* A text above the budget was sent alone between two other requests, and
\* some request was closed by the limit on the number of inputs.
C23_Witness ==
  /\ fn.op = "batch"
  /\ \E r \in 2..(Len(fn.requests) - 1) :
       /\ Len(fn.requests[r]) = 1
       /\ SumTokens(fn.texts, fn.requests[r]) > MAX_TOKENS_PER_REQUEST
  /\ \E r \in 1..(Len(fn.requests) - 1) :
       Len(fn.requests[r]) = MAX_INPUTS_PER_REQUEST

\* ---------------------------------------------------------------- retriever
\* Retriever.enrichResults on its own.  The file of a path is missing,
\* cannot be read, or is the sequence of its lines (fileContent.split).
LineTexts == {1, 2}

FileStates ==
  {[kind |-> "missing", lines |-> <<>>], [kind |-> "unreadable", lines |-> <<>>]}
    \cup {[kind |-> "file", lines |-> ls] :
            ls \in UNION {[1..n -> LineTexts] : n \in 1..MaxFileLines}}

HitPaths == {<<"a">>, <<"d", "b">>}

\* The payloads the vector store can hand back.
Payloads ==
  [filePath : HitPaths, startLine : 1..MaxPayloadLine, endLine : 1..MaxPayloadLine]

Max(a, b) == IF a > b THEN a ELSE b

\* Mutant: the end of the range is taken as exclusive.
SliceEnd_Exclusive(lines, endLine) == Min(Len(lines), endLine - 1)

\* const end = Math.min(lines.length, endLine)
SliceEnd(lines, endLine) == Min(Len(lines), endLine)

\* Array.prototype.slice(start, end) for 0 <= start and 0 <= end <= length.
Slice(lines, start, end) ==
  IF start >= end THEN <<>> ELSE [k \in 1..(end - start) |-> lines[start + k]]

\* The body of the loop of enrichResults for one hit.
EnrichOne(disk, vr) ==
  LET file == disk[vr.filePath]
      content ==
        IF file.kind = "file"
        THEN [kind |-> "text",
              lines |-> Slice(file.lines, Max(0, vr.startLine - 1),
                              SliceEnd(file.lines, vr.endLine))]
        ELSE IF file.kind = "missing"
             THEN [kind |-> "fileNotFound", lines |-> <<>>]
             ELSE [kind |-> "errorReadingFile", lines |-> <<>>]
  IN [filePath |-> vr.filePath, startLine |-> vr.startLine, endLine |-> vr.endLine,
      content |-> content]

enrichResults(disk, vectorResults) ==
  [k \in 1..Len(vectorResults) |-> EnrichOne(disk, vectorResults[k])]

EnrichApply(disk, vectorResults) ==
  [op |-> "enrich", disk |-> disk, vectorResults |-> vectorResults,
   results |-> enrichResults(disk, vectorResults)]

InitEnrich ==
  /\ Parked
  /\ fn = EnrichApply([p \in HitPaths |-> [kind |-> "missing", lines |-> <<>>]], <<>>)

\* The vector store returns one more hit.
EnrichAddHit ==
  /\ fn.op = "enrich"
  /\ Len(fn.vectorResults) < MaxHits
  /\ \E vr \in Payloads : fn' = EnrichApply(fn.disk, Append(fn.vectorResults, vr))
  /\ UNCHANGED pipeline

\* A file of the root is written, removed or made unreadable before the
\* results are read back.
EnrichSetFile ==
  /\ fn.op = "enrich"
  /\ \E p \in HitPaths, file \in FileStates :
       /\ file # fn.disk[p]
       /\ fn' = EnrichApply([fn.disk EXCEPT ![p] = file], fn.vectorResults)
  /\ UNCHANGED pipeline

NextEnrich == EnrichAddHit \/ EnrichSetFile

SpecEnrich == InitEnrich /\ [][NextEnrich]_vars

\* ---------------------------------------------------------------- C24
\* The lines startLine .. endLine of a file, as far as the file has them.
LinesInRange(lines, startLine, endLine) ==
  SelectSeq([k \in 1..Len(lines) |-> [at |-> k, text |-> lines[k]]],
            LAMBDA l : startLine <= l.at /\ l.at <= endLine)

\* C24: for every hit the result carries the lines startLine .. endLine
\* (1-based, inclusive, as far as the file has them) of the file now at the
\* payload path; for a missing file it carries the placeholder; a result is
\* returned for every hit.
C24_ContentIsLiveSlice ==
  fn.op = "enrich" =>
    /\ Len(fn.results) = Len(fn.vectorResults)
    /\ \A k \in 1..Len(fn.vectorResults) :
         LET vr == fn.vectorResults[k]
             file == fn.disk[vr.filePath]
             res == fn.results[k]
             expected == LinesInRange(file.lines, vr.startLine, vr.endLine)
         IN /\ res.filePath = vr.filePath
            /\ file.kind = "file" =>
                 /\ res.content.kind = "text"
                 /\ res.content.lines = [i \in 1..Len(expected) |-> expected[i].text]
            /\ file.kind = "missing" => res.content.kind = "fileNotFound"

\* One search returned a hit on a file whose range is cut by the end of the
\* file and a hit on a missing file.
C24_Witness ==
  /\ fn.op = "enrich"
  /\ \E k \in 1..Len(fn.vectorResults) :
       LET vr == fn.vectorResults[k]
       IN /\ fn.disk[vr.filePath].kind = "file"
          /\ vr.startLine <= Len(fn.disk[vr.filePath].lines)
          /\ vr.endLine > Len(fn.disk[vr.filePath].lines)
          /\ vr.startLine > 1
  /\ \E k \in 1..Len(fn.vectorResults) :
       fn.disk[fn.vectorResults[k].filePath].kind = "missing"

\* ---------------------------------------------------------------- dataset
\* DatasetLoader.load from the cached files on.  Corpus entries and queries
\* are their ids, in file order; a qrels row is [qid, cid, score].
QrelRows == [qid : 1..MaxQueryRows, cid : 1..MaxDocs, score : {0, 1}]

RECURSIVE QrelsOf(_, _)
\* The loop over qrelsRaw: qrels.get(qid).set(cid, score), the last row of a
\* pair winning; the map is the set of its [qid, cid, score] entries.
QrelsOf(rows, qrels) ==
  IF rows = <<>> THEN qrels
  ELSE LET row == Head(rows)
       IN QrelsOf(Tail(rows),
                  {e \in qrels : ~(e.qid = row.qid /\ e.cid = row.cid)} \cup {row})

\* relevantCorpusIds: the corpus ids of the rows with score > 0.
RelevantCorpusIds(rows) == {rows[k].cid : k \in {j \in 1..Len(rows) : rows[j].score > 0}}

RECURSIVE FillCorpus(_, _, _)
\* The second loop of the capped branch: distractors up to maxCorpus.
FillCorpus(corpusRaw, corpusMap, maxCorpus) ==
  IF corpusRaw = <<>> \/ Len(corpusMap) >= maxCorpus THEN corpusMap
  ELSE FillCorpus(Tail(corpusRaw),
                  IF Head(corpusRaw) \in Range(corpusMap) THEN corpusMap
                  ELSE Append(corpusMap, Head(corpusRaw)),
                  maxCorpus)

\* opts.maxCorpus && opts.maxCorpus < corpusRaw.length
CorpusCapped(corpusRaw, maxCorpus) == maxCorpus # 0 /\ maxCorpus < Len(corpusRaw)

LoadCorpus(corpusRaw, rows, maxCorpus) ==
  IF CorpusCapped(corpusRaw, maxCorpus)
  THEN FillCorpus(corpusRaw,
                  SelectSeq(corpusRaw, LAMBDA id : id \in RelevantCorpusIds(rows)),
                  maxCorpus)
  ELSE corpusRaw

\* The filter callback on the queries.
KeepsQuery(q, qrels, corpusIds) == \E e \in qrels : e.qid = q /\ e.cid \in corpusIds

LoadApply(corpusRaw, queriesRaw, qrelsRaw, maxCorpus, maxQueries) ==
  LET qrels == QrelsOf(qrelsRaw, {})
      corpus == LoadCorpus(corpusRaw, qrelsRaw, maxCorpus)
      filteredQueries == SelectSeq(queriesRaw, LAMBDA q : KeepsQuery(q, qrels, Range(corpus)))
      finalQueries == IF maxQueries # 0 /\ maxQueries < Len(filteredQueries)
                      THEN SubSeq(filteredQueries, 1, maxQueries)
                      ELSE filteredQueries
  IN [op |-> "load", corpusRaw |-> corpusRaw, queriesRaw |-> queriesRaw,
      qrelsRaw |-> qrelsRaw, maxCorpus |-> maxCorpus, maxQueries |-> maxQueries,
      qrels |-> qrels, corpus |-> corpus, filteredQueries |-> filteredQueries,
      queries |-> finalQueries]

InitLoad ==
  /\ Parked
  /\ fn = LoadApply(<<>>, <<>>, <<>>, 0, 0)

\* The cached corpus has one more entry.
LoadAddDoc ==
  /\ fn.op = "load"
  /\ Len(fn.corpusRaw) < MaxDocs
  /\ fn' = LoadApply(Append(fn.corpusRaw, Len(fn.corpusRaw) + 1), fn.queriesRaw,
                     fn.qrelsRaw, fn.maxCorpus, fn.maxQueries)
  /\ UNCHANGED pipeline

\* The cached queries have one more entry.
LoadAddQuery ==
  /\ fn.op = "load"
  /\ Len(fn.queriesRaw) < MaxQueryRows
  /\ fn' = LoadApply(fn.corpusRaw, Append(fn.queriesRaw, Len(fn.queriesRaw) + 1),
                     fn.qrelsRaw, fn.maxCorpus, fn.maxQueries)
  /\ UNCHANGED pipeline

\* The cached qrels have one more row.
LoadAddQrel ==
  /\ fn.op = "load"
  /\ Len(fn.qrelsRaw) < MaxQrels
  /\ \E row \in QrelRows :
       fn' = LoadApply(fn.corpusRaw, fn.queriesRaw, Append(fn.qrelsRaw, row),
                       fn.maxCorpus, fn.maxQueries)
  /\ UNCHANGED pipeline

\* load is called with other options (0: the option is not given).
LoadSetOpts ==
  /\ fn.op = "load"
  /\ \E maxCorpus \in 0..MaxDocs, maxQueries \in 0..MaxQueryRows :
       /\ <<maxCorpus, maxQueries>> # <<fn.maxCorpus, fn.maxQueries>>
       /\ fn' = LoadApply(fn.corpusRaw, fn.queriesRaw, fn.qrelsRaw, maxCorpus, maxQueries)
  /\ UNCHANGED pipeline

NextLoad == LoadAddDoc \/ LoadAddQuery \/ LoadAddQrel \/ LoadSetOpts

SpecLoad == InitLoad /\ [][NextLoad]_vars

\* ---------------------------------------------------------------- C25
\* C25: when the corpus is capped, every query load returns has a corpus id
\* with relevance score > 0 that is in the returned corpus.
C25_SurvivorsHavePositiveDoc ==
  (fn.op = "load" /\ CorpusCapped(fn.corpusRaw, fn.maxCorpus)) =>
    \A k \in 1..Len(fn.queries) :
      \E e \in fn.qrels :
        e.qid = fn.queries[k] /\ e.score > 0 /\ e.cid \in Range(fn.corpus)

\* ---------------------------------------------------------------- record id
\* sha256ToUuid on its own.  A hex string is the sequence of the values
\* 0 .. 15 of its characters; the dash is Dash.
HexDigits == 0..15
HexLen == 64
Dash == 0 - 1

\* String.prototype.substring(from, to)
Substring(s, from, to) == SubSeq(s, from + 1, to)

\* Mutant: the variant character is copied from the hash.
VariantChar_Copied(variantChar) == variantChar

\* ((variantChar & 0x3) | 0x8) on a hex digit: the two low bits, bit 3 set.
VariantChar(variantChar) == (variantChar % 4) + 8

sha256ToUuid(sha256Hex) ==
  LET hex == Substring(sha256Hex, 0, 32)
      uuid == Substring(hex, 0, 8) \o <<Dash>> \o Substring(hex, 8, 12) \o <<Dash>>
                \o Substring(hex, 12, 16) \o <<Dash>> \o Substring(hex, 16, 20)
                \o <<Dash>> \o Substring(hex, 20, 32)
  IN [uuid EXCEPT ![15] = 5, ![20] = VariantChar(uuid[20])]

\* A content hash: a pattern over the 64 positions, from its first digit.
PatternHash(first) == [i \in 1..HexLen |-> (first + 3 * (i - 1)) % 16]

UuidApply(sha256Hex, edits) ==
  [op |-> "uuid", sha256Hex |-> sha256Hex, edits |-> edits, id |-> sha256ToUuid(sha256Hex)]

InitUuid ==
  /\ Parked
  /\ \E first \in HexDigits : fn = UuidApply(PatternHash(first), 0)

\* The id of a hash that differs in one digit is derived.
UuidChangeDigit ==
  /\ fn.op = "uuid"
  /\ fn.edits < MaxDigitEdits
  /\ \E i \in 1..HexLen, d \in HexDigits :
       /\ d # fn.sha256Hex[i]
       /\ fn' = UuidApply([fn.sha256Hex EXCEPT ![i] = d], fn.edits + 1)
  /\ UNCHANGED pipeline

NextUuid == UuidChangeDigit

SpecUuid == InitUuid /\ [][NextUuid]_vars

\* ---------------------------------------------------------------- C26
\* The characters of an id without its dashes.
Undashed(id) == SelectSeq(id, LAMBDA c : c # Dash)

\* C26: the id is the first 32 hex characters of the hash in the groups
\* 8-4-4-4-12 with dashes between them, character 14 being 5 and character
\* 19 being the two low bits of the hash's character with bit 3 set (8, 9,
\* a or b), every other character copied from the hash (characters are
\* counted from 0).
C26_UuidShape ==
  fn.op = "uuid" =>
    /\ Len(fn.id) = 36
    /\ \A p \in 0..35 : (fn.id[p + 1] = Dash) <=> (p \in {8, 13, 18, 23})
    /\ fn.id[14 + 1] = 5
    /\ fn.id[19 + 1] \in {8, 9, 10, 11}
    /\ fn.id[19 + 1] % 4 = fn.sha256Hex[16 + 1] % 4
    /\ \A h \in 0..31 :
         h \notin {12, 16} => Undashed(fn.id)[h + 1] = fn.sha256Hex[h + 1]

\* The id of a hash whose version and variant characters both had to be
\* replaced, derived after a digit of the hash changed.
C26_Witness ==
  /\ fn.op = "uuid"
  /\ fn.edits > 0
  /\ fn.sha256Hex[12 + 1] # 5
  /\ fn.sha256Hex[16 + 1] \notin {8, 9, 10, 11}

\* ---------------------------------------------------------------- C28
\* C28: within one index() call no chunk content is sent to the embedding
\* provider more than once, and newChunks is the number of distinct contents
\* sent.
C28_EachHashEmbeddedOnce ==
  /\ \A i \in 1..Len(out.embedded), j \in 1..Len(out.embedded) :
       Sha256(<<out.embedded[i].text>>) = Sha256(<<out.embedded[j].text>>) => i = j
  /\ (out.status = "ok" /\ Len(out.embedded) > 0) =>
       out.stats.newChunks =
         Cardinality({Sha256(<<out.embedded[i].text>>) : i \in 1..Len(out.embedded)})

\* ---------------------------------------------------------------- C29
\* The files that were hashed but whose chunking failed in the run that has
\* just returned.
FailedButHashed == out.reported \cap out.hashed

Callers == 1..NumCallers

IdleCaller == [pc |-> "idle", kind |-> "none", saw |-> "none", got |-> 0, calls |-> 0]

\* Mutant: init() starts _doInit whenever the mode is 'uninitialized'.
InitMustStart_NoPromiseCheck(mode, initPromise) == mode = "uninitialized"

\* init() gets past both early returns.
InitMustStart(mode, initPromise) == mode = "uninitialized" /\ initPromise = "null"

\* new Embedder(localModelName, options), with or without an OpenAI key.
InitEmbedder ==
  /\ Parked
  /\ \E openaiApiKey \in BOOLEAN :
       fn = [op |-> "embedder", openaiApiKey |-> openaiApiKey, mode |-> "uninitialized",
             initPromise |-> "null", doInit |-> "none", localModel |-> FALSE,
             starts |-> 0, modeSets |-> 0, failures |-> 0,
             callers |-> [c \in Callers |-> IdleCaller]]

\* A caller calls init(), embed() or embedBatch(): init() runs up to its
\* return (a return when the mode is set, the stored promise, or a new
\* _doInit, which runs up to its first await).
EmbedderCall ==
  /\ fn.op = "embedder"
  /\ \E c \in Callers, kind \in {"init", "embed", "embedBatch"} :
       /\ fn.callers[c].pc = "idle"
       /\ fn.callers[c].calls < MaxCallsEach
       /\ LET me == [fn.callers[c] EXCEPT !.kind = kind, !.saw = fn.initPromise,
                                          !.got = 0, !.calls = @ + 1]
          IN IF fn.mode # "uninitialized"
             THEN fn' = [fn EXCEPT !.callers[c] = [me EXCEPT !.pc = "ready"]]
             ELSE IF ~InitMustStart(fn.mode, fn.initPromise)
                  THEN fn' = [fn EXCEPT !.callers[c] = [me EXCEPT !.pc = "awaiting"]]
                  ELSE fn' = [fn EXCEPT !.callers[c] = [me EXCEPT !.pc = "awaiting"],
                                        !.initPromise = "pending",
                                        !.starts = @ + 1,
                                        !.doInit = IF fn.openaiApiKey THEN "probing"
                                                   ELSE "loading"]
  /\ UNCHANGED pipeline

\* _doInit: the OpenAI probe answers; the mode is set and the promise resolves.
ProbeOk ==
  /\ fn.op = "embedder" /\ fn.doInit = "probing"
  /\ fn' = [fn EXCEPT !.mode = "openai", !.modeSets = @ + 1, !.doInit = "done",
                      !.initPromise = "resolved"]
  /\ UNCHANGED pipeline

\* _doInit: the OpenAI probe throws; caught, the local model is loaded next.
ProbeFail ==
  /\ fn.op = "embedder" /\ fn.doInit = "probing"
  /\ fn' = [fn EXCEPT !.doInit = "loading"]
  /\ UNCHANGED pipeline

\* _doInit: pipeline(...) returns the local model; the dimension probe is next.
LoadOk ==
  /\ fn.op = "embedder" /\ fn.doInit = "loading"
  /\ fn' = [fn EXCEPT !.localModel = TRUE, !.doInit = "localProbe"]
  /\ UNCHANGED pipeline

\* _doInit: the dimension probe answers; the mode is set and the promise resolves.
LocalProbeOk ==
  /\ fn.op = "embedder" /\ fn.doInit = "localProbe"
  /\ fn' = [fn EXCEPT !.mode = "local", !.modeSets = @ + 1, !.doInit = "done",
                      !.initPromise = "resolved"]
  /\ UNCHANGED pipeline

\* _doInit: loading the local model or its probe throws; the promise rejects.
LoadFail ==
  /\ fn.op = "embedder" /\ fn.doInit \in {"loading", "localProbe"}
  /\ fn' = [fn EXCEPT !.doInit = "failed", !.initPromise = "rejected",
                      !.failures = @ + 1]
  /\ UNCHANGED pipeline

\* A caller awaiting the promise resumes: with the failure of the _doInit
\* that rejected it, or past `await this.init()`.
EmbedderResume ==
  /\ fn.op = "embedder"
  /\ \E c \in Callers :
       /\ fn.callers[c].pc = "awaiting"
       /\ fn.initPromise \in {"resolved", "rejected"}
       /\ fn' = IF fn.initPromise = "rejected"
                THEN [fn EXCEPT !.callers[c].pc = "failed", !.callers[c].got = fn.failures]
                ELSE [fn EXCEPT !.callers[c].pc = "ready"]
  /\ UNCHANGED pipeline

\* The call returns (init), or embeds with the backend of the mode and
\* returns (embed, embedBatch), or has thrown; the caller may call again.
EmbedderReturn ==
  /\ fn.op = "embedder"
  /\ \E c \in Callers :
       /\ fn.callers[c].pc \in {"ready", "failed"}
       /\ fn' = [fn EXCEPT !.callers[c].pc = "idle"]
  /\ UNCHANGED pipeline

NextEmbedder ==
  \/ EmbedderCall \/ ProbeOk \/ ProbeFail \/ LoadOk \/ LocalProbeOk \/ LoadFail
  \/ EmbedderResume \/ EmbedderReturn

SpecEmbedder == InitEmbedder /\ [][NextEmbedder]_vars

\* ---------------------------------------------------------------- C30
\* C30: _doInit is started at most once; the mode is set at most once, and
\* is 'uninitialized' exactly until then; a caller that is past
\* `await this.init()` sees a set mode; every call that fails has received
\* the failure of that one _doInit, also when it was made after the failure.
C30_InitOnce ==
  fn.op = "embedder" =>
    /\ fn.starts <= 1
    /\ fn.modeSets <= 1
    /\ (fn.mode = "uninitialized") <=> (fn.modeSets = 0)
    /\ fn.initPromise = "rejected" => (fn.failures = 1 /\ fn.mode = "uninitialized")
    /\ \A c \in Callers :
         /\ fn.callers[c].pc = "ready" => fn.mode # "uninitialized"
         /\ fn.callers[c].pc = "failed" => fn.callers[c].got = 1
         /\ (fn.callers[c].pc \in {"awaiting", "failed"} /\ fn.callers[c].saw = "rejected")
              => fn.starts = 1

\* Two callers were awaiting one initialisation, it failed, and a call made
\* after the failure has failed too.
C30_Witness ==
  /\ fn.op = "embedder"
  /\ fn.initPromise = "rejected"
  /\ \E c \in Callers : fn.callers[c].pc = "failed" /\ fn.callers[c].saw = "rejected"
  /\ \E c \in Callers : fn.callers[c].saw = "pending"

====
